---------------------------- MODULE Spec2Model ----------------------------
(***************************************************************************)
(* Model of the response formatter of the Ace Handyman Services chat UI    *)
(* (src/app_DEV.py, class StreamlitChatbot), and of the chat session the   *)
(* script keeps in st.session_state (src/app_DEV.py and src/app_v2.py).    *)
(*                                                                         *)
(* Text is a sequence of one-character strings.  Markup is a sequence of   *)
(* such characters and of tag tokens (the literal tags the code appends,   *)
(* each kept as one element), so that a raw "<" character of the input is  *)
(* never confused with the "<" of a tag the formatter wrote.               *)
(* A Python value is a record [kind, val]: kind "str" (val the text),      *)
(* kind "none" (Python None) or kind "raise" (the call raised).            *)
(***************************************************************************)
EXTENDS Integers, Sequences, FiniteSets, TLC

VARIABLES
    arg,      \* the value the function under test is called with
    op,       \* which function is called: "escape" or "format"; "chat" for a session
    pc,       \* "ready" before the first call, "done" after a call returned
    result,   \* the value (or exception) of the last call
    path,     \* dispatch of the last format call: "unset", "none", "domain", "general"
    calls,    \* number of calls made so far with this argument
    prev,     \* <<path, result>> of the call before the last one, or <<>>
    app,                  \* the variant of the application: "DEV" or "v2"
    run,                  \* where the script is: "idle" (a run ended, the widgets wait),
                          \* "thinking" (endpoint called), "answered", "raised" (the call
                          \* returned or raised), "restarting" (v2), "crashed"
    chat_history,         \* st.session_state.chat_history
    feedback_selection,   \* st.session_state.feedback_selection
    feedback_submitted,   \* st.session_state.feedback_submitted
    conversation_log_id,  \* st.session_state.conversation_log_id, 0 for None
    response_count,       \* st.session_state.response_count
    input_key_counter,    \* st.session_state.input_key_counter
    trigger_clear,        \* st.session_state.trigger_clear (v2)
    uuids,                \* number of values uuid.uuid4() has handed out for log ids
    clears,               \* number of times _clear_chat() has run in the session
    upserts,              \* the threads started by _save_conversation_log, in order
    inserts,              \* the threads started by _save_feedback_to_database, in order
    log_rows              \* the conversation rows of the feedback table, by id

\* the variables of a function call and those of a chat session
callVars == <<arg, op, pc, result, path, calls, prev>>
chatVars ==
    <<app, run, chat_history, feedback_selection, feedback_submitted,
      conversation_log_id, response_count, input_key_counter, trigger_clear, uuids,
      clears, upserts, inserts, log_rows>>

vars == <<callVars, chatVars>>

-----------------------------------------------------------------------------
(* Bounds of the model *)

\* longest text handed to _escape_html on its own
MaxEscLen == 3
\* number of times the same text is formatted (a message is re-rendered on every run)
MaxCalls == 2
\* largest value of input_key_counter: submissions plus clears of one session
MaxInputKey == 3
\* the number of background threads followed to their end in one session
MaxThreads == 2

-----------------------------------------------------------------------------
(* Python values *)

PyStr(s) == [kind |-> "str", val |-> s]
PyNone == [kind |-> "none", val |-> <<>>]
PyRaise == [kind |-> "raise", val |-> <<>>]

-----------------------------------------------------------------------------
(* str helpers: the Python built-ins the code relies on *)

\* str.isspace for one character (the ASCII whitespace \s and strip() know)
IsSpace(c) == c \in {" ", "\t", "\n", "\r", "\f"}

\* str.lower for one character, as re.IGNORECASE and .lower() fold ASCII letters
Lower(c) ==
    CASE c = "A" -> "a" [] c = "B" -> "b" [] c = "C" -> "c" [] c = "D" -> "d"
      [] c = "E" -> "e" [] c = "F" -> "f" [] c = "G" -> "g" [] c = "H" -> "h"
      [] c = "I" -> "i" [] c = "J" -> "j" [] c = "K" -> "k" [] c = "L" -> "l"
      [] c = "M" -> "m" [] c = "N" -> "n" [] c = "O" -> "o" [] c = "P" -> "p"
      [] c = "Q" -> "q" [] c = "R" -> "r" [] c = "S" -> "s" [] c = "T" -> "t"
      [] c = "U" -> "u" [] c = "V" -> "v" [] c = "W" -> "w" [] c = "X" -> "x"
      [] c = "Y" -> "y" [] c = "Z" -> "z" [] OTHER -> c

\* s[i:] with a 1-based index: the suffix starting at position i
From(s, i) == SubSeq(s, i, Len(s))

\* least element of a non-empty set of integers
SetMin(S) == CHOOSE x \in S : \A y \in S : x <= y
\* greatest element of a non-empty set of integers
SetMax(S) == CHOOSE x \in S : \A y \in S : x >= y

\* str.strip(): drop leading and trailing whitespace
Strip(s) ==
    LET keep == {i \in 1..Len(s) : ~IsSpace(s[i])}
    IN  IF keep = {} THEN <<>> ELSE SubSeq(s, SetMin(keep), SetMax(keep))

\* the literal lit occurs in s at position i (case-sensitive)
LitAt(s, i, lit) ==
    /\ i >= 1
    /\ i + Len(lit) - 1 <= Len(s)
    /\ \A j \in 1..Len(lit) : s[i + j - 1] = lit[j]

\* str.startswith
StartsWith(s, lit) == LitAt(s, 1, lit)

\* first position >= i at which lit occurs in s, or 0
FindLit(s, lit, i) ==
    LET hits == {k \in i..Len(s) : LitAt(s, k, lit)}
    IN  IF hits = {} THEN 0 ELSE SetMin(hits)

RECURSIVE SplitLit(_, _)
\* str.split(lit): the pieces between the non-overlapping occurrences of lit,
\* leftmost first; empty pieces are kept
SplitLit(s, lit) ==
    LET k == FindLit(s, lit, 1)
    IN  IF k = 0 THEN <<s>>
        ELSE <<SubSeq(s, 1, k - 1)>> \o SplitLit(From(s, k + Len(lit)), lit)

RECURSIVE JoinWith(_, _)
\* sep.join(parts)
JoinWith(parts, sep) ==
    IF parts = <<>> THEN <<>>
    ELSE IF Len(parts) = 1 THEN parts[1]
    ELSE parts[1] \o sep \o JoinWith(Tail(parts), sep)

RECURSIVE ReplaceChar(_, _, _)
\* str.replace(c, rep) for a one-character c: every occurrence of c becomes
\* rep, and the text that a replacement inserts is not scanned again by the
\* same call.  (Computed by halves, which gives the same text as the scan
\* from the left and keeps the recursion shallow.)
ReplaceChar(s, c, rep) ==
    IF s = <<>> THEN <<>>
    ELSE IF Len(s) = 1 THEN (IF s[1] = c THEN rep ELSE s)
    ELSE LET h == Len(s) \div 2
         IN  ReplaceChar(SubSeq(s, 1, h), c, rep)
             \o ReplaceChar(SubSeq(s, h + 1, Len(s)), c, rep)

-----------------------------------------------------------------------------
(* _escape_html *)

Amp == <<"&", "a", "m", "p", ";">>
Lt == <<"&", "l", "t", ";">>
Gt == <<"&", "g", "t", ";">>
Quot == <<"&", "q", "u", "o", "t", ";">>
Apos == <<"&", "#", "x", "2", "7", ";">>

\* a plausible slip: '&' replaced last, so the '&' of the entities written by the
\* earlier replacements is escaped again
EscapeTextAmpLast(text) ==
    ReplaceChar(ReplaceChar(ReplaceChar(ReplaceChar(ReplaceChar(
        text, "<", Lt), ">", Gt), "\"", Quot), "'", Apos), "&", Amp)

\* the chain of five str.replace calls on a str
EscapeText(text) ==
    ReplaceChar(ReplaceChar(ReplaceChar(ReplaceChar(ReplaceChar(
        text, "&", Amp), "<", Lt), ">", Gt), "\"", Quot), "'", Apos)

\* _escape_html(v): there is no guard, so None.replace raises AttributeError
EscapeHtml(v) ==
    IF v.kind = "none" THEN PyRaise ELSE PyStr(EscapeText(v.val))

-----------------------------------------------------------------------------
(* Regular-expression helpers: what Python's backtracking matcher computes *)

\* the literal lit occurs in s at position i under re.IGNORECASE
LitAtCI(s, i, lit) ==
    /\ i >= 1
    /\ i + Len(lit) - 1 <= Len(s)
    /\ \A j \in 1..Len(lit) : Lower(s[i + j - 1]) = Lower(lit[j])

\* the position after the longest run of whitespace that starts at position i
\* (i itself when s[i] is no whitespace; Len(s) + 1 when the run reaches the end)
SpaceRunEnd(s, i) ==
    LET stops == {k \in i..Len(s) : ~IsSpace(s[k])}
    IN  IF stops = {} THEN Len(s) + 1 ELSE SetMin(stops)

\* the position of the first "\n" at or after position i, or Len(s) + 1
LineEnd(s, i) ==
    LET nls == {k \in i..Len(s) : s[k] = "\n"}
    IN  IF nls = {} THEN Len(s) + 1 ELSE SetMin(nls)

\* a match object: found, and group(1)
NoMatch == [found |-> FALSE, g1 |-> <<>>]
Match(g) == [found |-> TRUE, g1 |-> g]

\* the literals of the detection patterns (lines 509-511)
W_estimated ==
    <<"e", "s", "t", "i", "m", "a", "t", "e", "d">>

W_time ==
    <<"t", "i", "m", "e", ":">>

W_confidence ==
    <<"c", "o", "n", "f", "i", "d", "e", "n", "c", "e", ":">>

W_schedule ==
    <<"s", "c", "h", "e", "d", "u", "l", "e">>

W_summary ==
    <<"s", "u", "m", "m", "a", "r", "y", ":">>

\* the literals of the extraction patterns (lines 520-527)
P_EstimatedTime ==
    <<"E", "s", "t", "i", "m", "a", "t", "e", "d", " ", "t", "i", "m", "e",
      ":">>

P_Confidence ==
    <<"C", "o", "n", "f", "i", "d", "e", "n", "c", "e", ":">>

P_ScheduleSummary ==
    <<"S", "c", "h", "e", "d", "u", "l", "e", " ", "S", "u", "m", "m", "a",
      "r", "y", ":">>

P_ToImprove ==
    <<"T", "o", " ", "i", "m", "p", "r", "o", "v", "e", " ", "t", "h", "i",
      "s", " ", "e", "s", "t", "i", "m", "a", "t", "e">>

-----------------------------------------------------------------------------
(* _is_handyman_response *)

\* re.search(r'w1\s+w2', content, re.IGNORECASE) is not None: w1, then the
\* greedy \s+ takes the whole whitespace run (at least one character), then w2
SearchWords(content, w1, w2) ==
    \E i \in 1..Len(content) :
        /\ LitAtCI(content, i, w1)
        /\ LET p == i + Len(w1)
               q == SpaceRunEnd(content, p)
           IN  q > p /\ LitAtCI(content, q, w2)

\* re.search(r'lit', content, re.IGNORECASE) is not None
SearchLit(content, lit) ==
    \E i \in 1..Len(content) : LitAtCI(content, i, lit)

\* a plausible slip: the summary probe forgotten in the conjunction
IsHandymanResponseNoSummary(content) ==
    /\ SearchWords(content, W_estimated, W_time)
    /\ SearchLit(content, W_confidence)

\* _is_handyman_response(content): has_time and has_confidence and has_summary
IsHandymanResponse(content) ==
    /\ SearchWords(content, W_estimated, W_time)
    /\ SearchLit(content, W_confidence)
    /\ SearchWords(content, W_schedule, W_summary)

-----------------------------------------------------------------------------
(* _format_handyman_response: the four extraction patterns *)

\* one attempt, with lit at position i, of r'lit\s*(.+?)(?=\n|$)': the greedy
\* \s* (which also takes "\n") gives characters back until a character other
\* than "\n" follows it; group(1) then runs lazily to the end of that line
FieldAttempt(content, i, lit) ==
    LET p == i + Len(lit)
        q == SpaceRunEnd(content, p)
        ks == {k \in p..q : k <= Len(content) /\ content[k] # "\n"}
    IN  IF ks = {} THEN NoMatch
        ELSE LET k == SetMax(ks)
             IN  Match(SubSeq(content, k, LineEnd(content, k) - 1))

\* re.search(r'lit\s*(.+?)(?=\n|$)', content, re.IGNORECASE): the leftmost
\* position at which an attempt succeeds
FieldSearch(content, lit) ==
    LET starts == {i \in 1..Len(content) :
                      LitAtCI(content, i, lit) /\ FieldAttempt(content, i, lit).found}
    IN  IF starts = {} THEN NoMatch
        ELSE FieldAttempt(content, SetMin(starts), lit)

\* r'\s*\n' at position p: the greedy \s* backs off to the last "\n" of the
\* whitespace run at p; the position after that "\n", or 0 when the run has none
AfterHeaderNewline(s, p) ==
    LET q == SpaceRunEnd(s, p)
        nls == {k \in p..(q - 1) : s[k] = "\n"}
    IN  IF nls = {} THEN 0 ELSE SetMax(nls) + 1

\* one iteration of (?:\s*-\s*.+(?:\n|$)) at position c: the position after it,
\* or 0 when it does not match.  Under re.DOTALL '.+' runs to the end of the text.
BulletIter(s, c, dotall) ==
    LET d == SpaceRunEnd(s, c)
    IN  IF d > Len(s) \/ s[d] # "-" THEN 0
        ELSE LET e == SpaceRunEnd(s, d + 1)
                 ks == {k \in (d + 1)..e :
                           k <= Len(s) /\ (dotall \/ s[k] # "\n")}
             IN  IF ks = {} THEN 0
                 ELSE IF dotall THEN Len(s) + 1
                 ELSE LET n == LineEnd(s, SetMax(ks))
                      IN  IF n <= Len(s) THEN n + 1 ELSE n

RECURSIVE BulletsEnd(_, _, _)
\* the greedy ( ... )* of bullet iterations from position c: the position after
\* the last iteration that matches
BulletsEnd(s, c, dotall) ==
    LET n == BulletIter(s, c, dotall)
    IN  IF n = 0 THEN c ELSE BulletsEnd(s, n, dotall)

\* position of group(1) of the summary pattern when 'Schedule Summary:' is at i, or 0
SummaryGroupStart(content, i) ==
    IF LitAtCI(content, i, P_ScheduleSummary)
    THEN AfterHeaderNewline(content, i + Len(P_ScheduleSummary))
    ELSE 0

\* re.search(r'Schedule Summary:\s*\n((?:\s*-\s*.+(?:\n|$))*)', content,
\*           re.IGNORECASE | re.MULTILINE)
SummarySearch(content) ==
    LET starts == {i \in 1..Len(content) : SummaryGroupStart(content, i) # 0}
    IN  IF starts = {} THEN NoMatch
        ELSE LET g == SummaryGroupStart(content, SetMin(starts))
             IN  Match(SubSeq(content, g, BulletsEnd(content, g, FALSE) - 1))

\* position of group(1) of the questions pattern when 'To improve this estimate'
\* is at i, or 0: [^:]* runs (over line breaks too) to the first ':' after it
QuestionsGroupStart(content, i) ==
    IF LitAtCI(content, i, P_ToImprove)
    THEN LET colon == FindLit(content, <<":">>, i + Len(P_ToImprove))
         IN  IF colon = 0 THEN 0 ELSE AfterHeaderNewline(content, colon + 1)
    ELSE 0

\* re.search(r'To improve this estimate[^:]*:\s*\n((?:\s*-\s*.+(?:\n|$))*)',
\*           content, re.IGNORECASE | re.MULTILINE | re.DOTALL)
QuestionsSearch(content) ==
    LET starts == {i \in 1..Len(content) : QuestionsGroupStart(content, i) # 0}
    IN  IF starts = {} THEN NoMatch
        ELSE LET g == QuestionsGroupStart(content, SetMin(starts))
             IN  Match(SubSeq(content, g, BulletsEnd(content, g, TRUE) - 1))

\* the loop over group(1).strip().split('\n'): each line stripped, kept when it
\* starts with '- ', and its text line[2:].strip() (never empty for such a line)
BulletItems(group) ==
    LET lines == SplitLit(Strip(group), <<"\n">>)
        stripped == [k \in 1..Len(lines) |-> Strip(lines[k])]
        kept == SelectSeq(stripped,
                    LAMBDA l : l # <<>> /\ StartsWith(l, <<"-", " ">>))
        texts == [k \in 1..Len(kept) |-> Strip(From(kept[k], 3))]
    IN  SelectSeq(texts, LAMBDA t : t # <<>>)

-----------------------------------------------------------------------------
(* _format_handyman_response: the markup.  Every element of html_parts that   *)
(* is a fixed tag is one token; the emoji of a tag is written as its name.    *)

TagHeaderOpen == "<div class=\"summary-header\">"
TagRowOpen == "<div class=\"estimate-row\">"
TagTimeEmoji == "<span class=\"estimate-emoji\">:stopwatch:</span>"
TagTimeLabel == "<span class=\"estimate-label\">Estimated time:</span>"
TagConfEmoji == "<span class=\"estimate-emoji\">:dart:</span>"
TagConfLabel == "<span class=\"estimate-label\">Confidence:</span>"
TagBadge == "<span class=\"confidence-badge\">"
TagBadgeLow == "<span class=\"confidence-badge low\">"
TagBadgeHigh == "<span class=\"confidence-badge high\">"
TagSectionOpen == "<div class=\"section-header\">"
TagSummaryEmoji == "<span class=\"section-emoji\">:clipboard:</span>"
TagSummaryLabel == "<span>Schedule Summary</span>"
TagQuestionsEmoji == "<span class=\"section-emoji\">:question:</span>"
TagQuestionsLabel ==
    "<span>To improve this estimate, please answer the following</span>"
TagTaskList == "<ul class=\"enhanced-list task-list\">"
TagQuestionList == "<ul class=\"enhanced-list question-list\">"
TagTaskEmoji == "<span class=\"list-emoji\">:wrench:</span>"
TagQuestionEmoji == "<span class=\"list-emoji\">:thought:</span>"
TagSpanOpen == "<span>"
TagSpanClose == "</span>"
TagDivClose == "</div>"
TagLiOpen == "<li>"
TagLiClose == "</li>"
TagUlClose == "</ul>"

\* f'<span>{self._escape_html(text)}</span>'
TextSpan(open, text) == <<open>> \o EscapeText(text) \o <<TagSpanClose>>

\* 'lit' in s
Contains(s, lit) == FindLit(s, lit, 1) # 0

\* a plausible slip: the two substring tests in the other order
BadgeTagHighFirst(value) ==
    LET confidence == [k \in 1..Len(Strip(value)) |-> Lower(Strip(value)[k])]
    IN  IF Contains(confidence, <<"h", "i", "g", "h">>) THEN TagBadgeHigh
        ELSE IF Contains(confidence, <<"l", "o", "w">>) THEN TagBadgeLow
        ELSE TagBadge

\* the badge class chosen from confidence_match.group(1).strip().lower()
BadgeTag(value) ==
    LET confidence == [k \in 1..Len(Strip(value)) |-> Lower(Strip(value)[k])]
    IN  IF Contains(confidence, <<"l", "o", "w">>) THEN TagBadgeLow
        ELSE IF Contains(confidence, <<"h", "i", "g", "h">>) THEN TagBadgeHigh
        ELSE TagBadge

\* a plausible slip: the rows written without the tests on the match objects,
\* so that a field that did not match shows as an empty value
HeaderPartsUnguarded(time_match, confidence_match) ==
    <<TagHeaderOpen>>
    \o <<TagRowOpen, TagTimeEmoji, TagTimeLabel>>
    \o TextSpan(TagSpanOpen, Strip(time_match.g1))
    \o <<TagDivClose>>
    \o <<TagRowOpen, TagConfEmoji, TagConfLabel>>
    \o TextSpan(BadgeTag(confidence_match.g1), Strip(confidence_match.g1))
    \o <<TagDivClose>>
    \o <<TagDivClose>>

\* lines 531-556: the header block, emitted when either field matched
HeaderParts(time_match, confidence_match) ==
    IF ~(time_match.found \/ confidence_match.found) THEN <<>>
    ELSE <<TagHeaderOpen>>
         \o (IF time_match.found
             THEN <<TagRowOpen, TagTimeEmoji, TagTimeLabel>>
                  \o TextSpan(TagSpanOpen, Strip(time_match.g1))
                  \o <<TagDivClose>>
             ELSE <<>>)
         \o (IF confidence_match.found
             THEN <<TagRowOpen, TagConfEmoji, TagConfLabel>>
                  \o TextSpan(BadgeTag(confidence_match.g1),
                              Strip(confidence_match.g1))
                  \o <<TagDivClose>>
             ELSE <<>>)
         \o <<TagDivClose>>

RECURSIVE ItemsAsLis(_, _)
\* one <li> per item, each with the given emoji
ItemsAsLis(items, emoji) ==
    IF items = <<>> THEN <<>>
    ELSE <<TagLiOpen, emoji>> \o TextSpan(TagSpanOpen, items[1]) \o <<TagLiClose>>
         \o ItemsAsLis(Tail(items), emoji)

\* a plausible slip: the summary rendered like the questions, one <li> per bullet
SummaryPartsPerItem(summary_match) ==
    IF ~summary_match.found THEN <<>>
    ELSE <<TagSectionOpen, TagSummaryEmoji, TagSummaryLabel, TagDivClose,
           TagTaskList>>
         \o ItemsAsLis(BulletItems(summary_match.g1), TagTaskEmoji)
         \o <<TagUlClose>>

\* lines 558-582: the summary section, emitted when the pattern matched (also
\* with an empty group); the bullets collapse into one <li>
SummaryParts(summary_match) ==
    IF ~summary_match.found THEN <<>>
    ELSE LET summary_items == BulletItems(summary_match.g1)
         IN  <<TagSectionOpen, TagSummaryEmoji, TagSummaryLabel, TagDivClose,
               TagTaskList>>
             \o (IF summary_items # <<>>
                 THEN ItemsAsLis(<<JoinWith(summary_items, <<",", " ">>)>>,
                                 TagTaskEmoji)
                 ELSE <<>>)
             \o <<TagUlClose>>

\* a plausible slip: the questions collapsed like the summary
QuestionsPartsCollapsed(questions_match) ==
    IF ~questions_match.found THEN <<>>
    ELSE LET items == BulletItems(questions_match.g1)
         IN  <<TagSectionOpen, TagQuestionsEmoji, TagQuestionsLabel, TagDivClose,
               TagQuestionList>>
             \o (IF items # <<>>
                 THEN ItemsAsLis(<<JoinWith(items, <<",", " ">>)>>,
                                 TagQuestionEmoji)
                 ELSE <<>>)
             \o <<TagUlClose>>

\* lines 584-603: the questions section, one <li> per bullet
QuestionsParts(questions_match) ==
    IF ~questions_match.found THEN <<>>
    ELSE <<TagSectionOpen, TagQuestionsEmoji, TagQuestionsLabel, TagDivClose,
           TagQuestionList>>
         \o ItemsAsLis(BulletItems(questions_match.g1), TagQuestionEmoji)
         \o <<TagUlClose>>

\* a plausible slip: the sections appended in the order of a different layout
FormatHandymanResponseQuestionsFirst(content) ==
    QuestionsParts(QuestionsSearch(content))
    \o HeaderParts(FieldSearch(content, P_EstimatedTime),
                   FieldSearch(content, P_Confidence))
    \o SummaryParts(SummarySearch(content))

\* _format_handyman_response(content): ''.join(html_parts)
FormatHandymanResponse(content) ==
    HeaderParts(FieldSearch(content, P_EstimatedTime),
                FieldSearch(content, P_Confidence))
    \o SummaryParts(SummarySearch(content))
    \o QuestionsParts(QuestionsSearch(content))

-----------------------------------------------------------------------------
(* _format_inline_text *)

\* the backtick U+0060, one character of the text
Backtick == "U+0060"

TagCodeOpen == "<code>"
TagCodeClose == "</code>"
TagStrongOpen == "<strong>"
TagStrongClose == "</strong>"

RECURSIVE SubInlineCode(_)
\* re.sub(r'`([^`]+)`', r'<code>\1</code>', text): leftmost first, a backtick
\* followed by one or more other characters (line breaks too) and a backtick
SubInlineCode(text) ==
    LET opens == {i \in 1..Len(text) :
                     /\ text[i] = Backtick
                     /\ i + 1 <= Len(text) /\ text[i + 1] # Backtick
                     /\ FindLit(text, <<Backtick>>, i + 1) # 0}
    IN  IF opens = {} THEN text
        ELSE LET i == SetMin(opens)
                 j == FindLit(text, <<Backtick>>, i + 1)
             IN  SubSeq(text, 1, i - 1)
                 \o <<TagCodeOpen>> \o SubSeq(text, i + 1, j - 1) \o <<TagCodeClose>>
                 \o SubInlineCode(From(text, j + 1))

\* the end of the lazy (.+?) when the marker pair mm opens at position i: the
\* position of the nearest closing mm with at least one character and no line
\* break before it, or 0
BoldClose(text, i, mm) ==
    LET js == {j \in (i + 3)..Len(text) :
                  /\ LitAt(text, j, mm)
                  /\ \A k \in (i + 2)..(j - 1) : text[k] # "\n"}
    IN  IF js = {} THEN 0 ELSE SetMin(js)

RECURSIVE SubBold(_, _)
\* re.sub(r'mm(.+?)mm', r'<strong>\1</strong>', text) for mm = '**' or '__'
SubBold(text, mm) ==
    LET opens == {i \in 1..Len(text) :
                     LitAt(text, i, mm) /\ BoldClose(text, i, mm) # 0}
    IN  IF opens = {} THEN text
        ELSE LET i == SetMin(opens)
                 j == BoldClose(text, i, mm)
             IN  SubSeq(text, 1, i - 1)
                 \o <<TagStrongOpen>> \o SubSeq(text, i + 2, j - 1)
                 \o <<TagStrongClose>>
                 \o SubBold(From(text, j + 2), mm)

\* re.sub(r'(?<!</?strong>)\*([^*]+)\*(?!</?strong>)', ...): the look-behind
\* '</?strong>' has no fixed width, so compiling the pattern raises re.error
\* ("look-behind requires fixed-width pattern") whatever the text is
SubItalic(text) == PyRaise

\* _format_inline_text(text): the empty text is returned as it is; any other
\* text reaches the italic substitution, which raises
FormatInlineText(text) ==
    IF text = <<>> THEN PyStr(text)
    ELSE SubItalic(SubBold(SubBold(SubInlineCode(text), <<"*", "*">>),
                           <<"_", "_">>))

-----------------------------------------------------------------------------
(* _format_paragraph *)

TagPreCodeOpen == "<pre><code>"
TagPreCodeClose == "</code></pre>"
TagUlOpen == "<ul>"
TagOlOpen == "<ol>"
TagOlClose == "</ol>"
TagPOpen == "<p>"
TagPClose == "</p>"
TagBr == "<br>"

Fence == <<Backtick, Backtick, Backtick>>
\* the bullet dot U+2022, one character of the text
BulletDot == "U+2022"
IsBulletChar(c) == c \in {BulletDot, "-", "*"}
IsDigit(c) == c \in {"0", "1", "2", "3", "4", "5", "6", "7", "8", "9"}

\* the position after the longest run of digits that starts at position i
DigitRunEnd(s, i) ==
    LET stops == {k \in i..Len(s) : ~IsDigit(s[k])}
    IN  IF stops = {} THEN Len(s) + 1 ELSE SetMin(stops)

\* list_pattern.match(line): r'^[\s]*[bullet]\s+|^\d+\.\s+' on the unstripped line
ListPatternMatch(line) ==
    \/ LET d == SpaceRunEnd(line, 1)
       IN  /\ d + 1 <= Len(line)
           /\ IsBulletChar(line[d])
           /\ IsSpace(line[d + 1])
    \/ LET d == DigitRunEnd(line, 1)
       IN  /\ d > 1
           /\ d + 1 <= Len(line)
           /\ line[d] = "."
           /\ IsSpace(line[d + 1])

\* r'\s+(.+)' at position p of a stripped line: group(1) is the rest of the
\* line after the whitespace run, which must not be empty
AfterMarker(line, p) ==
    LET q == SpaceRunEnd(line, p)
    IN  IF q > p /\ q <= Len(line) THEN Match(From(line, q)) ELSE NoMatch

\* re.match(r'^[bullet]\s+(.+)', line)
BulletMatch(line) ==
    IF Len(line) >= 1 /\ IsBulletChar(line[1]) THEN AfterMarker(line, 2) ELSE NoMatch

\* re.match(r'^\d+\.\s+(.+)', line)
NumberMatch(line) ==
    LET d == DigitRunEnd(line, 1)
    IN  IF d > 1 /\ d <= Len(line) /\ line[d] = "."
        THEN AfterMarker(line, d + 1) ELSE NoMatch

\* the code content of an odd segment: the first line is dropped whenever more
\* lines follow (lines[0].strip() never starts with ' ')
CodeContent(part) ==
    LET lines == SplitLit(Strip(part), <<"\n">>)
    IN  IF Len(lines) > 1 /\ ~StartsWith(Strip(lines[1]), <<" ">>)
        THEN JoinWith(Tail(lines), <<"\n">>)
        ELSE Strip(part)

RECURSIVE FenceParts(_, _)
\* the loop over paragraph.split('```'), i the 0-based index of parts[1];
\* an exception raised for one part ends the call
FenceParts(parts, i) ==
    IF parts = <<>> THEN PyStr(<<>>)
    ELSE LET part == parts[1]
             here == IF Strip(part) = <<>> THEN PyStr(<<>>)
                     ELSE IF i % 2 = 0 THEN FormatInlineText(Strip(part))
                     ELSE PyStr(<<TagPreCodeOpen>> \o EscapeText(CodeContent(part))
                                \o <<TagPreCodeClose>>)
         IN  IF here.kind = "raise" THEN PyRaise
             ELSE LET rest == FenceParts(Tail(parts), i + 1)
                  IN  IF rest.kind = "raise" THEN PyRaise
                      ELSE PyStr(here.val \o rest.val)

\* f'</{list_type}>'
ListClose(list_type) == IF list_type = "ul" THEN TagUlClose ELSE TagOlClose

\* the tags appended before an item of type t: the open list is closed when it
\* has the other type, and a list of type t is opened when none of that type is open
ListSwitch(in_list, list_type, t) ==
    IF ~in_list \/ list_type # t
    THEN (IF in_list THEN <<ListClose(list_type)>> ELSE <<>>)
         \o <<IF t = "ul" THEN TagUlOpen ELSE TagOlOpen>>
    ELSE <<>>

RECURSIVE ListLines(_, _, _, _)
\* the loop of lines 657-689 over the lines of a list candidate, with the
\* loop's variables in_list and list_type and the markup built so far
ListLines(lines, in_list, list_type, out) ==
    IF lines = <<>>
    THEN PyStr(out \o (IF in_list THEN <<ListClose(list_type)>> ELSE <<>>))
    ELSE LET line == Strip(lines[1])
             bullet_match == BulletMatch(line)
             number_match == NumberMatch(line)
             t == IF bullet_match.found THEN "ul" ELSE "ol"
             item == FormatInlineText(IF bullet_match.found THEN bullet_match.g1
                                      ELSE IF number_match.found THEN number_match.g1
                                      ELSE line)
         IN  IF line = <<>> THEN ListLines(Tail(lines), in_list, list_type, out)
             ELSE IF item.kind = "raise" THEN PyRaise
             ELSE IF bullet_match.found \/ number_match.found
             THEN ListLines(Tail(lines), TRUE, t,
                            out \o ListSwitch(in_list, list_type, t)
                                \o <<TagLiOpen>> \o item.val \o <<TagLiClose>>)
             ELSE ListLines(Tail(lines), FALSE, "none",
                            out \o (IF in_list THEN <<ListClose(list_type)>> ELSE <<>>)
                                \o <<TagPOpen>> \o item.val \o <<TagPClose>>)

RECURSIVE InlineLines(_)
\* [self._format_inline_text(line.strip()) for line in lines if line.strip()]:
\* the formatted lines, or the exception the first failing call raised
InlineLines(lines) ==
    IF lines = <<>> THEN [kind |-> "str", val |-> <<>>]
    ELSE LET line == Strip(lines[1])
             rest == InlineLines(Tail(lines))
         IN  IF line = <<>> THEN rest
             ELSE LET here == FormatInlineText(line)
                  IN  IF here.kind = "raise" \/ rest.kind = "raise" THEN PyRaise
                      ELSE [kind |-> "str", val |-> <<here.val>> \o rest.val]

\* _format_paragraph(paragraph)
FormatParagraph(paragraph) ==
    LET lines == SplitLit(paragraph, <<"\n">>)
    IN  IF Contains(paragraph, Fence)
        THEN FenceParts(SplitLit(paragraph, Fence), 0)
        ELSE IF /\ Len(lines) > 1
                /\ \E k \in 1..Len(lines) :
                      Strip(lines[k]) # <<>> /\ ListPatternMatch(lines[k])
        THEN ListLines(lines, FALSE, "none", <<>>)
        ELSE LET formatted_lines == InlineLines(lines)
             IN  IF formatted_lines.kind = "raise" THEN PyRaise
                 ELSE PyStr(<<TagPOpen>>
                            \o JoinWith(formatted_lines.val, <<TagBr>>)
                            \o <<TagPClose>>)

-----------------------------------------------------------------------------
(* _format_general_content and _format_message_content *)

RECURSIVE FormatParagraphs(_)
\* the loop over content.split('\n\n'): the markup of every candidate that is
\* not blank, or the exception the first failing candidate raised
FormatParagraphs(paragraphs) ==
    IF paragraphs = <<>> THEN [kind |-> "str", val |-> <<>>]
    ELSE LET rest == FormatParagraphs(Tail(paragraphs))
         IN  IF Strip(paragraphs[1]) = <<>> THEN rest
             ELSE LET here == FormatParagraph(Strip(paragraphs[1]))
                  IN  IF here.kind = "raise" \/ rest.kind = "raise" THEN PyRaise
                      ELSE [kind |-> "str", val |-> <<here.val>> \o rest.val]

\* _format_general_content(content): '<br><br>'.join(formatted_paragraphs)
FormatGeneralContent(content) ==
    LET formatted_paragraphs == FormatParagraphs(SplitLit(content, <<"\n", "\n">>))
    IN  IF formatted_paragraphs.kind = "raise" THEN PyRaise
        ELSE PyStr(JoinWith(formatted_paragraphs.val, <<TagBr, TagBr>>))

\* which branch _format_message_content takes: "none" is the early return of
\* 'if not content' (None or the empty text)
DispatchPath(v) ==
    IF v.kind = "none" \/ v.val = <<>> THEN "none"
    ELSE IF IsHandymanResponse(v.val) THEN "domain"
    ELSE "general"

\* a plausible slip: the markup of a message cached in the object and handed
\* back, half-built, by a later call
FormatMessageContentStateful(v) ==
    IF v.kind = "none" \/ v.val = <<>> THEN v
    ELSE IF calls > 0 THEN PyStr(<<>>)
    ELSE IF IsHandymanResponse(v.val) THEN PyStr(FormatHandymanResponse(v.val))
    ELSE FormatGeneralContent(v.val)

\* _format_message_content(content)
FormatMessageContent(v) ==
    IF v.kind = "none" \/ v.val = <<>> THEN v
    ELSE IF IsHandymanResponse(v.val) THEN PyStr(FormatHandymanResponse(v.val))
    ELSE FormatGeneralContent(v.val)

-----------------------------------------------------------------------------
(* The texts the functions are applied to *)

\* most bullet lines under one section header
MaxBullets == 2
\* most paragraph candidates of a general response
MaxParas == 2

\* all sequences over S of length at most n
SeqsUpTo(S, n) == UNION {[1..k -> S] : k \in 0..n}

RECURSIVE Cat(_)
\* the concatenation of a sequence of texts
Cat(ts) == IF ts = <<>> THEN <<>> ELSE ts[1] \o Cat(Tail(ts))

\* the characters _escape_html treats specially, a plain letter and ';'
EscAlphabet == {"&", "<", ">", "\"", "'", "a", ";"}

\* arguments of _escape_html: None, and every text over EscAlphabet up to MaxEscLen
EscapeInputs == {PyNone} \cup {PyStr(s) : s \in SeqsUpTo(EscAlphabet, MaxEscLen)}

\* variants of the time phrase
TimeA ==
    <<"E", "s", "t", "i", "m", "a", "t", "e", "d", " ", "t", "i", "m", "e",
      ":", " ", "2", "h">>

TimeB ==
    <<"E", "S", "T", "I", "M", "A", "T", "E", "D", " ", " ", "T", "I", "M",
      "E", ":", " ", "2", "h">>

TimeC ==
    <<"e", "s", "t", "i", "m", "a", "t", "e", "d", "\t", "t", "i", "m", "e",
      ":", " ", "1">>

TimeD ==
    <<"E", "s", "t", "i", "m", "a", "t", "e", "d", "\n", "t", "i", "m", "e",
      ":", " ", "3">>

TimeE ==
    <<"E", "s", "t", "i", "m", "a", "t", "e", "d", "t", "i", "m", "e", ":",
      " ", "2", "h">>

TimeF ==
    <<"E", "s", "t", "i", "m", "a", "t", "e", "d", " ", "t", "i", "m", "e">>

\* variants of the confidence phrase
ConfA ==
    <<"C", "o", "n", "f", "i", "d", "e", "n", "c", "e", ":", " ", "H", "i",
      "g", "h">>

ConfB ==
    <<"c", "o", "n", "f", "i", "d", "e", "n", "c", "e", ":", " ", "l", "o",
      "w">>

ConfC ==
    <<"C", "o", "n", "f", "i", "d", "e", "n", "c", "e">>

\* variants of the summary phrase
SumA ==
    <<"S", "c", "h", "e", "d", "u", "l", "e", " ", "S", "u", "m", "m", "a",
      "r", "y", ":">>

SumB ==
    <<"S", "C", "H", "E", "D", "U", "L", "E", " ", "\t", "s", "u", "m", "m",
      "a", "r", "y", ":">>

SumC ==
    <<"S", "c", "h", "e", "d", "u", "l", "e", "S", "u", "m", "m", "a", "r",
      "y", ":">>

SumD ==
    <<"S", "c", "h", "e", "d", "u", "l", "e", " ", "S", "u", "m", "m", "a",
      "r", "y">>

\* a bullet line after the phrases
TailBullet ==
    <<"\n", "-", " ", "a", "\n">>

\* the two header lines, in either order; the second has no time value
HeaderA ==
    <<"E", "s", "t", "i", "m", "a", "t", "e", "d", " ", "t", "i", "m", "e",
      ":", " ", "2", "h", "\n", "C", "o", "n", "f", "i", "d", "e", "n", "c",
      "e", ":", " ", "H", "i", "g", "h", "\n">>

HeaderB ==
    <<"C", "o", "n", "f", "i", "d", "e", "n", "c", "e", ":", " ", "l", "o",
      "w", "\n", "E", "s", "t", "i", "m", "a", "t", "e", "d", " ", "t", "i",
      "m", "e", ":", "\n">>

\* section headers
SummaryHead ==
    <<"S", "c", "h", "e", "d", "u", "l", "e", " ", "S", "u", "m", "m", "a",
      "r", "y", ":", "\n">>

QuestionsHead ==
    <<"T", "o", " ", "i", "m", "p", "r", "o", "v", "e", " ", "t", "h", "i",
      "s", " ", "e", "s", "t", "i", "m", "a", "t", "e", ",", " ", "a", "s",
      "k", ":", "\n">>

\* lines under a section header
LineA ==
    <<"-", " ", "a", "\n">>

LineB ==
    <<"-", " ", "b", "<", "c", "\n">>

LineNoSpace ==
    <<"-", "d", "\n">>

LineQ ==
    <<"-", " ", "q", "?", "\n">>

LineProse ==
    <<"x", "\n">>

\* paragraph candidates of a general response
ParaLt ==
    <<"a", "<", "b">>

ParaBold ==
    <<"*", "*", "b", "*", "*", " ", "&", " ", "c">>

ParaBullets ==
    <<"-", " ", "x", "\n", "-", " ", "y">>

ParaNumbered ==
    <<"1", ".", " ", "x", "\n", "t", "e", "x", "t">>

ParaFence ==
    <<Backtick, Backtick, Backtick, "a", "<", "b", Backtick, Backtick, Backtick>>

ParaFenceLang ==
    <<Backtick, Backtick, Backtick, "p", "y", "\n", "x", ">", "1", "\n", Backtick, Backtick, Backtick>>

ParaInline ==
    <<Backtick, "c", Backtick, " ", "_", "d", "_">>

NL == <<"\n">>

\* texts that hold, or almost hold, the three phrases of the template: one
\* variant (or nothing) of each phrase, one per line, with or without a bullet
DetectTexts ==
    {Cat(<<t, NL, c, NL, s, tail>>) :
        t \in {TimeA, TimeB, TimeC, TimeD, TimeE, TimeF, <<>>},
        c \in {ConfA, ConfB, ConfC, <<>>},
        s \in {SumA, SumB, SumC, SumD, <<>>},
        tail \in {<<>>, TailBullet}}

\* the orders in which the three blocks of a template response can come
BlockOrders ==
    {<<1, 2, 3>>, <<1, 3, 2>>, <<2, 1, 3>>, <<2, 3, 1>>, <<3, 1, 2>>, <<3, 2, 1>>}

\* a summary block: the header line and up to MaxBullets lines under it
SummaryBlocks ==
    {SummaryHead \o Cat(ls) :
        ls \in SeqsUpTo({LineA, LineB, LineNoSpace}, MaxBullets)}

\* a questions block: nothing, or the header line and up to MaxBullets lines
QuestionsBlocks ==
    {<<>>} \cup {QuestionsHead \o Cat(ls) :
                    ls \in SeqsUpTo({LineQ, LineProse}, MaxBullets)}

\* template responses: header lines, summary block and questions block in any order
DomainTexts ==
    {LET b == <<h, s, q>> IN b[o[1]] \o b[o[2]] \o b[o[3]] :
        h \in {HeaderA, HeaderB}, s \in SummaryBlocks, q \in QuestionsBlocks,
        o \in BlockOrders}

\* general responses: up to MaxParas paragraph candidates separated by blank lines
GeneralTexts ==
    {JoinWith(ps, <<"\n", "\n">>) :
        ps \in SeqsUpTo({ParaLt, ParaBold, ParaBullets, ParaNumbered, ParaFence,
                         ParaFenceLang, ParaInline}, MaxParas)}

\* confidence values
ValHigh ==
    <<"H", "i", "g", "h">>

ValLow ==
    <<"L", "O", "W">>

ValMedium ==
    <<"M", "e", "d", "i", "u", "m">>

ValBoth ==
    <<"H", "i", "g", "h", " ", "(", "l", "o", "w", " ", "d", "a", "t", "a",
      ")">>

ValMarkup ==
    <<"a", "<", "b">>

\* the confidence label of a template response
ConfLabel ==
    <<"C", "o", "n", "f", "i", "d", "e", "n", "c", "e", ":", " ">>

\* texts the detector accepts although the extraction patterns find little
\* or nothing in them
OddNothing ==
    <<"E", "S", "T", "I", "M", "A", "T", "E", "D", " ", " ", "T", "I", "M",
      "E", ":", " ", "2", "h", "\n", "S", "C", "H", "E", "D", "U", "L", "E",
      " ", "\t", "s", "u", "m", "m", "a", "r", "y", ":", "\n", "c", "o", "n",
      "f", "i", "d", "e", "n", "c", "e", ":">>

OddOneLine ==
    <<"S", "c", "h", "e", "d", "u", "l", "e", " ", "S", "u", "m", "m", "a",
      "r", "y", ":", " ", "E", "s", "t", "i", "m", "a", "t", "e", "d", " ",
      "t", "i", "m", "e", ":", " ", "C", "o", "n", "f", "i", "d", "e", "n",
      "c", "e", ":">>

OddSplit ==
    <<"c", "o", "n", "f", "i", "d", "e", "n", "c", "e", ":", " ", "e", "s",
      "t", "i", "m", "a", "t", "e", "d", "\n", "t", "i", "m", "e", ":", " ",
      "s", "c", "h", "e", "d", "u", "l", "e", "\n", "s", "u", "m", "m", "a",
      "r", "y", ":">>

\* plain prose, one line and two
PlainWord ==
    <<"a", "b">>

PlainTwoLines ==
    <<"a", "\n", "b", " ", "c">>

\* the scenario of the inline markup engine
CallUs ==
    <<"C", "a", "l", "l", " ", "u", "s", " ", "a", "t", " ", "5", "5", "5",
      "-", "1", "2", "3", "4", " ", "f", "o", "r", " ", "*", "*", "u", "r",
      "g", "e", "n", "t", "*", "*", " ", "h", "e", "l", "p", ".">>

\* list candidates: one line, and a list that stops and resumes
ParaOneBullet ==
    <<"-", " ", "x">>

ParaMixed ==
    <<"-", " ", "x", "\n", "t", "e", "x", "t", "\n", "1", ".", " ", "y",
      "\n", "*", " ", "z">>

\* fenced candidates: a first code line with leading whitespace, and prose
\* around a code segment
ParaFenceIndented ==
    <<Backtick, Backtick, Backtick, " ", "x", "\n", "y", Backtick, Backtick, Backtick>>

ParaFenceProse ==
    <<"a", Backtick, Backtick, Backtick, "b", Backtick, Backtick, Backtick, "c">>

\* a lone fence, and a code segment alone on its lines
ParaFenceEmpty ==
    <<Backtick, Backtick, Backtick>>

ParaFenceLines ==
    <<Backtick, Backtick, Backtick, "\n", "x", "\n", "y", "\n", Backtick, Backtick, Backtick>>

\* template responses with each confidence value
BadgeTexts ==
    {Cat(<<TimeA, NL, ConfLabel, v, NL, SummaryHead, LineA>>) :
        v \in {ValHigh, ValLow, ValMedium, ValBoth, ValMarkup}}

\* single texts for the cases of the paragraph and inline formatters
ExtraTexts ==
    {OddNothing, OddOneLine, OddSplit, PlainWord, PlainTwoLines, CallUs,
     ParaOneBullet, ParaMixed, ParaFenceIndented, ParaFenceProse,
     ParaFenceEmpty, ParaFenceLines}

\* arguments of _format_message_content (the empty text is in GeneralTexts)
FormatInputs ==
    {PyStr(s) : s \in DetectTexts \cup DomainTexts \cup GeneralTexts
                    \cup BadgeTexts \cup ExtraTexts}

-----------------------------------------------------------------------------
(* The session state of the chat *)

\* _initialize_session_state in a new session of the given variant
NewSession(variant) ==
    /\ app = variant
    /\ run = "idle"
    /\ chat_history = <<>>
    /\ feedback_selection = <<>>
    /\ feedback_submitted = {}
    /\ conversation_log_id = 0
    /\ response_count = 0
    /\ input_key_counter = 0
    /\ trigger_clear = FALSE
    /\ uuids = 0
    /\ clears = 0
    /\ upserts = <<>>
    /\ inserts = <<>>
    /\ log_rows = <<>>

-----------------------------------------------------------------------------
(* The state machine: a value is chosen, and the function is called on it *)

Init ==
    /\ op \in {"escape", "format"}
    /\ arg \in (IF op = "escape" THEN EscapeInputs ELSE FormatInputs)
    /\ pc = "ready"
    /\ result = PyNone
    /\ path = "unset"
    /\ calls = 0
    /\ prev = <<>>
    /\ NewSession("DEV")

\* one call of _escape_html(arg)
EscapeCall ==
    /\ op = "escape"
    /\ pc = "ready"
    /\ result' = EscapeHtml(arg)
    /\ pc' = "done"
    /\ calls' = calls + 1
    /\ UNCHANGED <<arg, op, path, prev>>
    /\ UNCHANGED chatVars

\* one call of _format_message_content(arg); _render_message makes it again
\* for the same message on every run of the script
FormatCall ==
    /\ op = "format"
    /\ calls < MaxCalls
    /\ result' = FormatMessageContent(arg)
    /\ path' = DispatchPath(arg)
    /\ prev' = IF calls = 0 THEN <<>> ELSE <<path, result>>
    /\ pc' = "done"
    /\ calls' = calls + 1
    /\ UNCHANGED <<arg, op>>
    /\ UNCHANGED chatVars

Next == EscapeCall \/ FormatCall

Spec == Init /\ [][Next]_vars

-----------------------------------------------------------------------------
(* The chat session: render() is run again after every event *)

\* what the user types: a message with blanks around it, and a blank input
UserText ==
    <<" ", "a", "<", "b", " ">>

BlankInput ==
    <<" ", " ">>

\* f'Error: {str(e)}' for the exception query_endpoint raises
ErrorPrefix ==
    <<"E", "r", "r", "o", "r", ":", " ">>

EndpointError ==
    <<"M", "o", "d", "e", "l", " ", "e", "n", "d", "p", "o", "i", "n", "t",
      " ", "e", "r", "r", "o", "r", ":", " ", "x">>

\* a template response of the model
TemplateReply == Cat(<<HeaderA, SummaryHead, LineA>>)

UserInputs == {UserText, BlankInput}
\* what _call_model_endpoint returns: a template response or plain prose
Replies == {TemplateReply, PlainWord}

\* a message of the transcript
Message(role, content) == [role |-> role, content |-> content]

\* _render_message(message, index): the markup embedded for the message, or
\* the exception raised.  DEV escapes a user message and formats an assistant
\* message; v2 embeds a user message as it is and an assistant message with
\* its line breaks replaced by <br>
RenderMessage(message) ==
    IF app = "v2"
    THEN (IF message.role = "user" THEN PyStr(message.content)
          ELSE PyStr(ReplaceChar(message.content, "\n", <<TagBr>>)))
    ELSE IF message.role = "user" THEN EscapeHtml(PyStr(message.content))
    ELSE FormatMessageContent(PyStr(message.content))

\* the loop of render() over the transcript ends without an exception
RendersAll(history) ==
    \A k \in 1..Len(history) : RenderMessage(history[k]).kind # "raise"

\* st.rerun(): the script runs again on the new transcript; an exception
\* raised while the transcript is displayed ends the run before the input
\* field, the Clear button and the feedback buttons exist
Rerun(history) == IF RendersAll(history) THEN "idle" ELSE "crashed"

\* the index (0-based) of the last message
LastIndex == Len(chat_history) - 1

\* _render_feedback_ui is called for the last message when the assistant wrote it
FeedbackShown ==
    /\ run = "idle"
    /\ chat_history # <<>>
    /\ chat_history[Len(chat_history)].role = "assistant"

\* _render_feedback_ui(LastIndex): the thank-you note once the feedback on the
\* message was submitted, else the thumb buttons, with the comment box and the
\* 'Submit Feedback' button ("form") once a thumb was selected
FeedbackUi ==
    IF ~ FeedbackShown THEN "none"
    ELSE IF LastIndex \in feedback_submitted THEN "thank-you"
    ELSE IF LastIndex \in DOMAIN feedback_selection THEN "form"
    ELSE "thumbs"

\* threading.Thread(target=upsert_conversation, args=(chat_history, id, count)):
\* the thread holds the list object itself (live: it is still the session's
\* chat_history) and the id and the count by value
UpsertThread(id, count) ==
    [id |-> id, count |-> count, epoch |-> clears, live |-> TRUE, items |-> <<>>,
     state |-> "started"]

\* the messages of the list object a thread holds, at the time it looks
ListOf(thread) == IF thread.live THEN chat_history ELSE thread.items

\* a plausible slip: a new log id for every response
SaveConversationLogFreshId ==
    /\ conversation_log_id' = uuids + 1
    /\ uuids' = uuids + 1
    /\ response_count' = response_count + 1
    /\ upserts' = Append(upserts, UpsertThread(conversation_log_id', response_count'))

\* _save_conversation_log(): the log id is created when there is none, the
\* response count goes up by one and the upsert thread is started
SaveConversationLog ==
    /\ conversation_log_id' = IF conversation_log_id = 0 THEN uuids + 1
                              ELSE conversation_log_id
    /\ uuids' = IF conversation_log_id = 0 THEN uuids + 1 ELSE uuids
    /\ response_count' = response_count + 1
    /\ upserts' = Append(upserts, UpsertThread(conversation_log_id', response_count'))

\* chat_history = []: the session gets a new list; the threads that hold the
\* old list object keep it, with the messages it has
Detached(threads) ==
    [k \in DOMAIN threads |->
        IF threads[k].live /\ threads[k].state = "started"
        THEN [threads[k] EXCEPT !.live = FALSE, !.items = chat_history]
        ELSE [threads[k] EXCEPT !.live = FALSE]]

\* a plausible slip: _clear_chat() without the reset of response_count
ClearAssignmentsKeepsCount ==
    /\ chat_history' = <<>>
    /\ feedback_selection' = <<>>
    /\ feedback_submitted' = {}
    /\ conversation_log_id' = 0
    /\ input_key_counter' = input_key_counter + 1
    /\ response_count' = response_count
    /\ clears' = clears + 1
    /\ upserts' = Detached(upserts)

\* the assignments of _clear_chat()
ClearAssignments ==
    /\ chat_history' = <<>>
    /\ feedback_selection' = <<>>
    /\ feedback_submitted' = {}
    /\ conversation_log_id' = 0
    /\ input_key_counter' = input_key_counter + 1
    /\ response_count' = 0
    /\ clears' = clears + 1
    /\ upserts' = Detached(upserts)

\* a new session of either variant
ChatInit ==
    /\ op = "chat"
    /\ arg = PyNone
    /\ pc = "ready"
    /\ result = PyNone
    /\ path = "unset"
    /\ calls = 0
    /\ prev = <<>>
    /\ \E variant \in {"DEV", "v2"} : NewSession(variant)

\* the user sends the chat input: a blank input changes nothing; otherwise the
\* trimmed text is appended, the input key goes up and the endpoint is called
Submit ==
    /\ run = "idle"
    /\ input_key_counter < MaxInputKey
    /\ \E user_input \in UserInputs :
          IF Strip(user_input) = <<>>
          THEN UNCHANGED vars
          ELSE /\ chat_history' = Append(chat_history, Message("user", Strip(user_input)))
               /\ input_key_counter' = input_key_counter + 1
               /\ run' = "thinking"
               /\ UNCHANGED <<app, feedback_selection, feedback_submitted,
                              conversation_log_id, response_count, trigger_clear,
                              uuids, clears, upserts, inserts, log_rows>>
               /\ UNCHANGED callVars

\* _call_model_endpoint returns
EndpointReturns ==
    /\ run = "thinking"
    /\ run' = "answered"
    /\ UNCHANGED <<app, chat_history, feedback_selection, feedback_submitted,
                   conversation_log_id, response_count, input_key_counter,
                   trigger_clear, uuids, clears, upserts, inserts, log_rows>>
    /\ UNCHANGED callVars

\* _call_model_endpoint raises: the except branch of render is entered
EndpointRaises ==
    /\ run = "thinking"
    /\ run' = "raised"
    /\ UNCHANGED <<app, chat_history, feedback_selection, feedback_submitted,
                   conversation_log_id, response_count, input_key_counter,
                   trigger_clear, uuids, clears, upserts, inserts, log_rows>>
    /\ UNCHANGED callVars

\* a plausible slip: the reply written over the user's message instead of after it
ModelResponseOverwrites ==
    /\ run = "answered"
    /\ \E assistant_response \in Replies :
          /\ chat_history' = [chat_history EXCEPT ![Len(chat_history)] =
                                 Message("assistant", assistant_response)]
          /\ run' = Rerun(chat_history')
    /\ SaveConversationLog
    /\ UNCHANGED <<app, feedback_selection, feedback_submitted, input_key_counter,
                   trigger_clear, clears, inserts, log_rows>>
    /\ UNCHANGED callVars

\* the reply of the endpoint is appended, the log is saved, st.rerun()
ModelResponse ==
    /\ run = "answered"
    /\ \E assistant_response \in Replies :
          /\ chat_history' = Append(chat_history,
                                    Message("assistant", assistant_response))
          /\ run' = Rerun(chat_history')
    /\ SaveConversationLog
    /\ UNCHANGED <<app, feedback_selection, feedback_submitted, input_key_counter,
                   trigger_clear, clears, inserts, log_rows>>
    /\ UNCHANGED callVars

\* a plausible slip: the exception swallowed, nothing appended for the failed call
ModelErrorSilent ==
    /\ run = "raised"
    /\ run' = Rerun(chat_history)
    /\ SaveConversationLog
    /\ UNCHANGED <<app, chat_history, feedback_selection, feedback_submitted,
                   input_key_counter, trigger_clear, clears, inserts, log_rows>>
    /\ UNCHANGED callVars

\* a plausible slip: the error branch without the call of _save_conversation_log
ModelErrorNotLogged ==
    /\ run = "raised"
    /\ chat_history' = Append(chat_history,
                              Message("assistant", ErrorPrefix \o EndpointError))
    /\ run' = Rerun(chat_history')
    /\ UNCHANGED <<app, feedback_selection, feedback_submitted, input_key_counter,
                   trigger_clear, clears, inserts, log_rows, conversation_log_id,
                   uuids, response_count, upserts>>
    /\ UNCHANGED callVars

\* the except branch: the error message is appended as the assistant's, the
\* log is saved, st.rerun()
ModelError ==
    /\ run = "raised"
    /\ chat_history' = Append(chat_history,
                              Message("assistant", ErrorPrefix \o EndpointError))
    /\ run' = Rerun(chat_history')
    /\ SaveConversationLog
    /\ UNCHANGED <<app, feedback_selection, feedback_submitted, input_key_counter,
                   trigger_clear, clears, inserts, log_rows>>
    /\ UNCHANGED callVars

\* a thumb button of the last message is pressed
SelectFeedback ==
    /\ FeedbackUi \in {"thumbs", "form"}
    /\ \E thumb \in {"thumbs-up", "thumbs-down"} :
          feedback_selection' =
              [k \in DOMAIN feedback_selection \cup {LastIndex} |->
                  IF k = LastIndex THEN thumb ELSE feedback_selection[k]]
    /\ UNCHANGED <<app, run, chat_history, feedback_submitted, conversation_log_id,
                   response_count, input_key_counter, trigger_clear, uuids, clears,
                   upserts, inserts, log_rows>>
    /\ UNCHANGED callVars

\* threading.Thread(target=insert_feedback) for the feedback on message index
InsertThread(index) ==
    [index |-> index, epoch |-> clears, state |-> "started"]

\* a plausible slip: the index not marked as submitted, so that the form stays
SubmitFeedbackUnmarked ==
    /\ FeedbackUi = "form"
    /\ inserts' = Append(inserts, InsertThread(LastIndex))
    /\ UNCHANGED <<app, run, chat_history, feedback_selection, feedback_submitted,
                   conversation_log_id, response_count, input_key_counter,
                   trigger_clear, uuids, clears, upserts, log_rows>>
    /\ UNCHANGED callVars

\* 'Submit Feedback' is pressed (shown once a thumb was selected):
\* _handle_feedback_submission starts the insert and marks the index
SubmitFeedback ==
    /\ FeedbackUi = "form"
    /\ inserts' = Append(inserts, InsertThread(LastIndex))
    /\ feedback_submitted' = feedback_submitted \cup {LastIndex}
    /\ UNCHANGED <<app, run, chat_history, feedback_selection, conversation_log_id,
                   response_count, input_key_counter, trigger_clear, uuids, clears,
                   upserts, log_rows>>
    /\ UNCHANGED callVars

\* DEV: the Clear button is pressed; _clear_chat() and st.rerun()
ClearChat ==
    /\ app = "DEV"
    /\ run = "idle"
    /\ input_key_counter < MaxInputKey
    /\ ClearAssignments
    /\ UNCHANGED <<app, run, trigger_clear, uuids, inserts, log_rows>>
    /\ UNCHANGED callVars

\* v2: the hidden button fires; the flag is set and the script is run again
ClearTrigger ==
    /\ app = "v2"
    /\ run = "idle"
    /\ input_key_counter < MaxInputKey
    /\ trigger_clear' = TRUE
    /\ run' = "restarting"
    /\ UNCHANGED <<app, chat_history, feedback_selection, feedback_submitted,
                   conversation_log_id, response_count, input_key_counter, uuids,
                   clears, upserts, inserts, log_rows>>
    /\ UNCHANGED callVars

\* a plausible slip: the clearing run without the reset of the flag
ClearOnStartKeepsFlag ==
    /\ app = "v2"
    /\ run = "restarting"
    /\ trigger_clear
    /\ ClearAssignments
    /\ run' = "idle"
    /\ UNCHANGED <<app, uuids, inserts, log_rows, trigger_clear>>
    /\ UNCHANGED callVars

\* v2: the run that finds the flag set resets it and clears, before anything
\* is displayed; _clear_chat() ends with st.rerun()
ClearOnStart ==
    /\ app = "v2"
    /\ run = "restarting"
    /\ trigger_clear
    /\ trigger_clear' = FALSE
    /\ ClearAssignments
    /\ run' = "idle"
    /\ UNCHANGED <<app, uuids, inserts, log_rows>>
    /\ UNCHANGED callVars

\* the session variables a background thread has no access to
sessionVars ==
    <<app, run, chat_history, feedback_selection, feedback_submitted,
      conversation_log_id, response_count, input_key_counter, trigger_clear, uuids,
      clears>>

\* upsert_conversation gets to cursor.execute: str(chat_history) is taken from
\* the list object as it is now, and the MERGE writes the row of the id
UpsertRuns ==
    \E k \in DOMAIN upserts :
        /\ upserts[k].state = "started"
        /\ LET seen == ListOf(upserts[k])
           IN  /\ upserts' = [upserts EXCEPT ![k].state = "done"]
               /\ log_rows' =
                     [id \in DOMAIN log_rows \cup {upserts[k].id} |->
                         IF id = upserts[k].id
                         THEN [message |-> seen, count |-> upserts[k].count]
                         ELSE log_rows[id]]
        /\ UNCHANGED <<sessionVars, inserts>>
        /\ UNCHANGED callVars

\* upsert_conversation fails (connection or SQL error): the exception is
\* caught and printed inside the thread
UpsertFails ==
    \E k \in DOMAIN upserts :
        /\ upserts[k].state = "started"
        /\ upserts' = [upserts EXCEPT ![k].state = "failed"]
        /\ UNCHANGED <<sessionVars, inserts, log_rows>>
        /\ UNCHANGED callVars

\* insert_feedback commits its row
InsertRuns ==
    \E k \in DOMAIN inserts :
        /\ inserts[k].state = "started"
        /\ inserts' = [inserts EXCEPT ![k].state = "done"]
        /\ UNCHANGED <<sessionVars, upserts, log_rows>>
        /\ UNCHANGED callVars

\* a plausible slip: a failed insert takes the index back out of feedback_submitted
InsertFailsRollsBack ==
    \E k \in DOMAIN inserts :
        /\ inserts[k].state = "started"
        /\ inserts' = [inserts EXCEPT ![k].state = "failed"]
        /\ feedback_submitted' = feedback_submitted \ {inserts[k].index}
        /\ UNCHANGED <<app, run, chat_history, feedback_selection,
                       conversation_log_id, response_count, input_key_counter,
                       trigger_clear, uuids, clears, upserts, log_rows>>
        /\ UNCHANGED callVars

\* insert_feedback fails: the exception is caught and printed inside the thread
InsertFails ==
    \E k \in DOMAIN inserts :
        /\ inserts[k].state = "started"
        /\ inserts' = [inserts EXCEPT ![k].state = "failed"]
        /\ UNCHANGED <<sessionVars, upserts, log_rows>>
        /\ UNCHANGED callVars

\* the runs of the script: the threads are started and not followed
ChatNext ==
    \/ Submit
    \/ EndpointReturns
    \/ EndpointRaises
    \/ ModelResponse
    \/ ModelError
    \/ SelectFeedback
    \/ SubmitFeedback
    \/ ClearChat
    \/ ClearTrigger
    \/ ClearOnStart

ChatSpec == ChatInit /\ [][ChatNext]_vars

\* fewer than MaxThreads threads were started so far
ThreadsBounded == Len(upserts) + Len(inserts) < MaxThreads

\* the runs of the script together with the background threads, which get to
\* the database at any time and in any order
PersistNext ==
    \/ ThreadsBounded /\ Submit
    \/ EndpointReturns
    \/ EndpointRaises
    \/ ModelResponse
    \/ ModelError
    \/ SelectFeedback
    \/ ThreadsBounded /\ SubmitFeedback
    \/ ClearChat
    \/ ClearTrigger
    \/ ClearOnStart
    \/ UpsertRuns
    \/ UpsertFails
    \/ InsertRuns
    \/ InsertFails

PersistSpec == ChatInit /\ [][PersistNext]_vars

-----------------------------------------------------------------------------
(* Properties *)

\* a format call has returned (or raised)
Formatted == op = "format" /\ pc = "done"
\* an escape call has returned (or raised)
Escaped == op = "escape" /\ pc = "done"

\* number of elements of the sequence s equal to x
CountOf(s, x) == Cardinality({k \in 1..Len(s) : s[k] = x})

\* position of the first element of s equal to x, or 0
PosOf(s, x) ==
    LET hits == {k \in 1..Len(s) : s[k] = x}
    IN  IF hits = {} THEN 0 ELSE SetMin(hits)

\* the markup between the list container tag `open` and the </ul> closing it
ListBody(markup, open) ==
    LET i == PosOf(markup, open)
        ends == {k \in (i + 1)..Len(markup) : markup[k] = TagUlClose}
    IN  SubSeq(markup, i + 1, SetMin(ends) - 1)

\* the markup of one list item holding the escaped text
LiOf(emoji, text) ==
    <<TagLiOpen, emoji, TagSpanOpen>> \o EscapeText(text)
    \o <<TagSpanClose, TagLiClose>>

(* C1: formatting a message returns a markup string and never raises,       *)
(* whatever the text.  Stated as it is claimed; the code raises re.error    *)
(* for every non-template text that reaches _format_inline_text.            *)
C1_FormatNeverRaises ==
    Formatted => result.kind = "str"

\* the characters of markup at which an HTML entity written by _escape_html starts
EntityAt(markup, k) ==
    \E e \in {Amp, Lt, Gt, Quot, Apos} : LitAt(markup, k, e)

(* C2: for every text routed to the general formatter the final markup      *)
(* holds no '<' or '>' character of the text and no '&' outside an entity:   *)
(* the only raw '<' and '>' are those of the tags the formatter inserted     *)
(* (tag tokens in this model).  Stated as it is claimed.                     *)
C2_GeneralOutputEscaped ==
    (Formatted /\ path = "general") =>
        /\ result.kind = "str"
        /\ \A k \in 1..Len(result.val) :
              /\ result.val[k] \notin {"<", ">"}
              /\ result.val[k] = "&" => EntityAt(result.val, k)

\* the text holds w1, one or more whitespace characters, and w2, ignoring case
HasWordsApart(s, w1, w2) ==
    \E i \in 1..Len(s), n \in 1..Len(s) :
        /\ LitAtCI(s, i, w1)
        /\ \A k \in 1..n :
              i + Len(w1) + k - 1 <= Len(s) /\ IsSpace(s[i + Len(w1) + k - 1])
        /\ LitAtCI(s, i + Len(w1) + n, w2)

\* the text holds all three patterns of the detector
HasAllThreePatterns(s) ==
    /\ HasWordsApart(s, W_estimated, W_time)
    /\ \E i \in 1..Len(s) : LitAtCI(s, i, W_confidence)
    /\ HasWordsApart(s, W_schedule, W_summary)

\* the text holds all three phrases literally (one space inside), ignoring case
HasAllThreePhrases(s) ==
    /\ SearchLit(s, P_EstimatedTime)
    /\ SearchLit(s, P_Confidence)
    /\ SearchLit(s, P_ScheduleSummary)

(* C3, as claimed: detection is true if and only if the text contains,      *)
(* ignoring case, the three phrases 'estimated time:', 'confidence:' and     *)
(* 'schedule summary:'; a text lacking one is never rendered by the domain   *)
(* renderer.                                                                 *)
C3_DetectIffPhrases ==
    Formatted =>
        /\ IsHandymanResponse(arg.val) <=> HasAllThreePhrases(arg.val)
        /\ path = "domain" <=> HasAllThreePhrases(arg.val)

(* C3, amended: detection is true if and only if the text contains,         *)
(* ignoring case, 'estimated' + one or more whitespace characters + 'time:', *)
(* 'confidence:', and 'schedule' + one or more whitespace characters +       *)
(* 'summary:'; a text lacking one of the three is classified false, is never *)
(* rendered by the domain renderer and, when not empty, is dispatched to the *)
(* general formatter.                                                        *)
C3_DetectIffPatterns ==
    Formatted =>
        /\ IsHandymanResponse(arg.val) <=> HasAllThreePatterns(arg.val)
        /\ path = "domain" <=> HasAllThreePatterns(arg.val)
        /\ (~HasAllThreePatterns(arg.val) /\ arg.val # <<>>) => path = "general"

\* C3's case: confidence and summary phrases present, the time phrase missing,
\* and the text went to the general formatter
C3_Witness ==
    /\ Formatted
    /\ SearchLit(arg.val, P_Confidence)
    /\ SearchLit(arg.val, P_ScheduleSummary)
    /\ ~HasWordsApart(arg.val, W_estimated, W_time)
    /\ path = "general"

(* C4, as claimed: for every text, the empty text included, the dispatch    *)
(* takes exactly one of the two paths, and a second call with the same text  *)
(* takes the same path and gives the same result.                            *)
C4_ExactlyOnePath ==
    Formatted =>
        /\ path \in {"domain", "general"}
        /\ calls >= 2 => prev = <<path, result>>

(* C4, amended: for every text that is not empty the dispatch takes exactly *)
(* one of the two paths; for the empty text it takes neither and returns the *)
(* text unchanged; path and outcome depend on the text alone: a second call  *)
(* with the same text takes the same path and ends the same way (the same    *)
(* markup, or the same exception).                                           *)
C4_PathByTextAlone ==
    Formatted =>
        /\ path \in {"none", "domain", "general"}
        /\ path = "none" <=> arg.val = <<>>
        /\ path = "none" => result = arg
        /\ calls >= 2 => prev = <<path, result>>

\* C4's case: the same template text formatted a second time
C4_Witness ==
    /\ Formatted
    /\ calls >= 2
    /\ path = "domain"
    /\ prev = <<path, result>>

\* the entity (or the character itself) that stands for one character
EscChar(c) ==
    CASE c = "&" -> Amp
      [] c = "<" -> Lt
      [] c = ">" -> Gt
      [] c = "\"" -> Quot
      [] c = "'" -> Apos
      [] OTHER -> <<c>>

(* C5: escape(text) is the character-by-character substitution of the five *)
(* metacharacters by their entities: each is replaced exactly once, the '&'  *)
(* and ';' a replacement writes are not escaped again, every other character *)
(* is kept, in order.                                                        *)
C5_EscapeIsCharSubstitution ==
    (Escaped /\ arg.kind = "str") =>
        result = PyStr(Cat([k \in 1..Len(arg.val) |-> EscChar(arg.val[k])]))

\* C5's case: a text with '&' and another metacharacter has been escaped
C5_Witness ==
    /\ Escaped
    /\ arg.kind = "str"
    /\ \E i, j \in 1..Len(arg.val) : arg.val[i] = "&" /\ arg.val[j] = "<"
    /\ result.kind = "str"

(* C6: escape applied to None or to the empty text returns its input        *)
(* unchanged and does not raise.  Stated as it is claimed; the code raises   *)
(* AttributeError for None.                                                  *)
C6_EscapeNoneOrEmptyUnchanged ==
    (Escaped /\ (arg.kind = "none" \/ arg.val = <<>>)) => result = arg

\* the bullet texts the renderer collects under 'Schedule Summary:'
SummaryItemsOf(content) ==
    LET m == SummarySearch(content)
    IN  IF m.found THEN BulletItems(m.g1) ELSE <<>>

\* the bullet texts the renderer collects under 'To improve this estimate...:'
QuestionItemsOf(content) ==
    LET m == QuestionsSearch(content)
    IN  IF m.found THEN BulletItems(m.g1) ELSE <<>>

(* C7: whenever the domain renderer collects one or more '- ' bullets under *)
(* 'Schedule Summary:', the summary list of the output holds exactly one     *)
(* list item, whose text is the bullet texts joined with ', ' in their       *)
(* order (HTML-escaped where it is embedded).                                *)
C7_SummaryCollapsed ==
    (Formatted /\ path = "domain" /\ SummaryItemsOf(arg.val) # <<>>) =>
        /\ CountOf(result.val, TagTaskList) = 1
        /\ CountOf(ListBody(result.val, TagTaskList), TagLiOpen) = 1
        /\ ListBody(result.val, TagTaskList) =
              LiOf(TagTaskEmoji, JoinWith(SummaryItemsOf(arg.val), <<",", " ">>))

\* C7's case: two or more summary bullets were collected and rendered
C7_Witness ==
    /\ Formatted
    /\ path = "domain"
    /\ Len(SummaryItemsOf(arg.val)) >= 2
    /\ CountOf(result.val, TagTaskList) = 1

(* C8: whenever the domain renderer collects n '- ' bullets under a header  *)
(* matching 'To improve this estimate...:', the questions list of the output *)
(* holds exactly n list items, one per bullet, in the order of the bullets;  *)
(* questions are never merged.                                               *)
C8_QuestionsNotCollapsed ==
    (Formatted /\ path = "domain" /\ QuestionItemsOf(arg.val) # <<>>) =>
        LET items == QuestionItemsOf(arg.val)
        IN  /\ CountOf(result.val, TagQuestionList) = 1
            /\ CountOf(ListBody(result.val, TagQuestionList), TagLiOpen) = Len(items)
            /\ ListBody(result.val, TagQuestionList) =
                  Cat([k \in 1..Len(items) |-> LiOf(TagQuestionEmoji, items[k])])

\* C8's case: two or more questions were collected and rendered
C8_Witness ==
    /\ Formatted
    /\ path = "domain"
    /\ Len(QuestionItemsOf(arg.val)) >= 2
    /\ CountOf(result.val, TagQuestionList) = 1

\* the tags that belong to each section of the template layout
HeaderTags ==
    {TagHeaderOpen, TagRowOpen, TagTimeEmoji, TagTimeLabel, TagConfEmoji,
     TagConfLabel, TagBadge, TagBadgeLow, TagBadgeHigh}
SummaryTags == {TagSummaryEmoji, TagSummaryLabel, TagTaskList, TagTaskEmoji}
QuestionsTags ==
    {TagQuestionsEmoji, TagQuestionsLabel, TagQuestionList, TagQuestionEmoji}

\* every element of markup that is in A comes before every element that is in B
AllBefore(markup, A, B) ==
    \A i, j \in 1..Len(markup) :
        (markup[i] \in A /\ markup[j] \in B) => i < j

(* C9: in every output of the domain renderer the sections come in the      *)
(* order header block (time row, then confidence badge), summary section,    *)
(* questions section, whatever the order of the fields in the input.         *)
C9_SectionOrder ==
    (Formatted /\ path = "domain") =>
        /\ AllBefore(result.val, HeaderTags, SummaryTags)
        /\ AllBefore(result.val, SummaryTags, QuestionsTags)
        /\ AllBefore(result.val, HeaderTags, QuestionsTags)
        /\ AllBefore(result.val, {TagTimeLabel}, {TagConfLabel})

\* C9's case: the input has the questions before the summary before the time
\* line, and all sections are rendered
C9_Witness ==
    /\ Formatted
    /\ path = "domain"
    /\ FindLit(arg.val, QuestionsHead, 1) # 0
    /\ FindLit(arg.val, QuestionsHead, 1) < FindLit(arg.val, SummaryHead, 1)
    /\ FindLit(arg.val, SummaryHead, 1) < FindLit(arg.val, P_EstimatedTime, 1)
    /\ PosOf(result.val, TagTimeLabel) # 0
    /\ PosOf(result.val, TagConfLabel) # 0
    /\ PosOf(result.val, TagTaskList) # 0
    /\ PosOf(result.val, TagQuestionList) # 0

(* C10: the domain renderer never emits an empty container: when no '- '    *)
(* bullet is collected under a section header, neither the section header    *)
(* nor the list container of that section is in the output, and every list   *)
(* container emitted holds at least one list item.  Stated as it is claimed. *)
C10_NoEmptyContainer ==
    (Formatted /\ path = "domain") =>
        /\ SummaryItemsOf(arg.val) = <<>> =>
              /\ CountOf(result.val, TagTaskList) = 0
              /\ CountOf(result.val, TagSummaryLabel) = 0
        /\ QuestionItemsOf(arg.val) = <<>> =>
              /\ CountOf(result.val, TagQuestionList) = 0
              /\ CountOf(result.val, TagQuestionsLabel) = 0
        /\ \A k \in 1..Len(result.val) :
              result.val[k] \in {TagTaskList, TagQuestionList} =>
                  (k < Len(result.val) /\ result.val[k + 1] = TagLiOpen)

\* the text that follows the first occurrence (ignoring case) of the label lit
\* on the label's own line, trimmed; the empty text when the label is missing
TextOnLineAfter(s, lit) ==
    LET hits == {i \in 1..Len(s) : LitAtCI(s, i, lit)}
    IN  IF hits = {} THEN <<>>
        ELSE LET p == SetMin(hits) + Len(lit)
             IN  Strip(SubSeq(s, p, LineEnd(s, p) - 1))

\* the text shown in the row of the label tag: what stands between the span
\* opened after the label tag and the </span> closing it
RowText(markup, label) ==
    LET i == PosOf(markup, label)
        ends == {k \in (i + 2)..Len(markup) : markup[k] = TagSpanClose}
    IN  SubSeq(markup, i + 2, SetMin(ends) - 1)

(* C11: the time row shows exactly the text that follows 'Estimated time:'  *)
(* on the same line (trimmed, HTML-escaped); it never holds text of a        *)
(* following line, and when nothing follows the label on its line there is   *)
(* no time row.  The same holds for the value after 'Confidence:'.  Stated   *)
(* as it is claimed; in the code the \s* after the label runs over the line  *)
(* break, so the value is taken from the next line that is not blank.        *)
C11_FieldFromItsLine ==
    (Formatted /\ path = "domain") =>
        \A f \in {<<P_EstimatedTime, TagTimeLabel>>, <<P_Confidence, TagConfLabel>>} :
            LET shown == TextOnLineAfter(arg.val, f[1])
            IN  IF shown = <<>> THEN CountOf(result.val, f[2]) = 0
                ELSE /\ CountOf(result.val, f[2]) = 1
                     /\ RowText(result.val, f[2]) = EscapeText(shown)

\* the text holds lit, ignoring case
ContainsCI(s, lit) == \E i \in 1..Len(s) : LitAtCI(s, i, lit)

\* the confidence value the renderer extracted, trimmed
ConfidenceValue(content) == Strip(FieldSearch(content, P_Confidence).g1)

\* the badge tags
BadgeTags == {TagBadge, TagBadgeLow, TagBadgeHigh}

\* the badge of the output: the tag opened right after the confidence label
BadgeOf(markup) == markup[PosOf(markup, TagConfLabel) + 1]

\* a confidence value was extracted and its row is in the output
BadgeShown ==
    /\ Formatted
    /\ path = "domain"
    /\ FieldSearch(arg.val, P_Confidence).found
    /\ PosOf(result.val, TagConfLabel) # 0

(* C12, as claimed: for every extracted confidence value exactly one badge  *)
(* style is chosen: 'low' when the value contains 'low', 'high' when it      *)
(* contains 'high' (both ignoring case), the default badge when it contains  *)
(* neither; the badge text is the value as written.                          *)
C12_BadgeByContent ==
    BadgeShown =>
        LET v == ConfidenceValue(arg.val)
        IN  /\ CountOf(result.val, TagConfLabel) = 1
            /\ Cardinality({k \in 1..Len(result.val) : result.val[k] \in BadgeTags}) = 1
            /\ ContainsCI(v, <<"l", "o", "w">>) => BadgeOf(result.val) = TagBadgeLow
            /\ ContainsCI(v, <<"h", "i", "g", "h">>) => BadgeOf(result.val) = TagBadgeHigh
            /\ (~ContainsCI(v, <<"l", "o", "w">>) /\ ~ContainsCI(v, <<"h", "i", "g", "h">>))
                  => BadgeOf(result.val) = TagBadge
            /\ RowText(result.val, TagConfLabel) = EscapeText(v)

(* C12, amended: for every extracted confidence value exactly one badge     *)
(* style is chosen: 'low' when the value contains 'low' (whether or not it   *)
(* contains 'high' as well), 'high' when it contains 'high' and not 'low',   *)
(* the default badge when it contains neither, all ignoring case; the badge  *)
(* text is the trimmed value as written in the input, HTML-escaped and not   *)
(* lower-cased.                                                              *)
C12_BadgeLowBeforeHigh ==
    BadgeShown =>
        LET v == ConfidenceValue(arg.val)
            low == ContainsCI(v, <<"l", "o", "w">>)
            high == ContainsCI(v, <<"h", "i", "g", "h">>)
        IN  /\ CountOf(result.val, TagConfLabel) = 1
            /\ Cardinality({k \in 1..Len(result.val) : result.val[k] \in BadgeTags}) = 1
            /\ low => BadgeOf(result.val) = TagBadgeLow
            /\ (high /\ ~low) => BadgeOf(result.val) = TagBadgeHigh
            /\ (~low /\ ~high) => BadgeOf(result.val) = TagBadge
            /\ RowText(result.val, TagConfLabel) = EscapeText(v)

\* C12's case: a value with an upper-case letter that contains both words has
\* been given its badge
C12_Witness ==
    /\ BadgeShown
    /\ ContainsCI(ConfidenceValue(arg.val), <<"l", "o", "w">>)
    /\ ContainsCI(ConfidenceValue(arg.val), <<"h", "i", "g", "h">>)
    /\ ConfidenceValue(arg.val) = ValBoth
    /\ BadgeOf(result.val) \in BadgeTags

\* r'lit\s*(.+?)(?=\n|$)' matches somewhere: after an occurrence of the label
\* there is a character other than a line break
ValuePatternMatches(s, lit) ==
    \E i \in 1..Len(s) :
        /\ LitAtCI(s, i, lit)
        /\ \E k \in (i + Len(lit))..Len(s) : s[k] # "\n"

\* from position p on, the text has only whitespace up to and including a line break
BlankToLineBreak(s, p) ==
    \E k \in p..Len(s) :
        /\ s[k] = "\n"
        /\ \A j \in p..(k - 1) : IsSpace(s[j])

\* r'Schedule Summary:\s*\n(...)*' matches somewhere
SummaryPatternMatches(s) ==
    \E i \in 1..Len(s) :
        /\ LitAtCI(s, i, P_ScheduleSummary)
        /\ BlankToLineBreak(s, i + Len(P_ScheduleSummary))

\* r'To improve this estimate[^:]*:\s*\n(...)*' matches somewhere
QuestionsPatternMatches(s) ==
    \E i \in 1..Len(s) :
        /\ LitAtCI(s, i, P_ToImprove)
        /\ LET colons == {c \in (i + Len(P_ToImprove))..Len(s) : s[c] = ":"}
           IN  colons # {} /\ BlankToLineBreak(s, SetMin(colons) + 1)

\* some element of the markup is one of the tags
HasAnyTag(markup, tags) == \E k \in 1..Len(markup) : markup[k] \in tags

(* C13: for every text on which detection is true, also when the phrases    *)
(* stand where some or all extraction patterns find nothing, the domain      *)
(* renderer returns markup without raising, and the row or section of a      *)
(* field is in the output exactly when the field's pattern matched: a field  *)
(* whose pattern did not match is left out.                                  *)
C13_UnmatchedFieldAbsent ==
    (Formatted /\ path = "domain") =>
        LET t == ValuePatternMatches(arg.val, P_EstimatedTime)
            c == ValuePatternMatches(arg.val, P_Confidence)
        IN  /\ result.kind = "str"
            /\ HasAnyTag(result.val, {TagTimeEmoji, TagTimeLabel}) <=> t
            /\ HasAnyTag(result.val, {TagConfEmoji, TagConfLabel} \cup BadgeTags) <=> c
            /\ HasAnyTag(result.val, {TagHeaderOpen, TagRowOpen}) <=> (t \/ c)
            /\ HasAnyTag(result.val, SummaryTags) <=> SummaryPatternMatches(arg.val)
            /\ HasAnyTag(result.val, QuestionsTags) <=> QuestionsPatternMatches(arg.val)
            /\ ~(t \/ c \/ SummaryPatternMatches(arg.val)
                 \/ QuestionsPatternMatches(arg.val)) => result.val = <<>>

\* C13's case: detection is true and no extraction pattern matched; the
\* renderer returned the empty markup
C13_Witness ==
    /\ Formatted
    /\ path = "domain"
    /\ ~ValuePatternMatches(arg.val, P_EstimatedTime)
    /\ ~ValuePatternMatches(arg.val, P_Confidence)
    /\ ~SummaryPatternMatches(arg.val)
    /\ ~QuestionsPatternMatches(arg.val)
    /\ result = PyStr(<<>>)

\* the characters that open a Markdown span, a list item or a code fence
MarkerChars == {"*", "_", Backtick, "-", BulletDot}

\* a text with no Markdown, list or domain markers that is one candidate:
\* not empty, no marker character, no digit, no blank line, not a template
IsPlainText(s) ==
    /\ Strip(s) # <<>>
    /\ \A k \in 1..Len(s) : s[k] \notin MarkerChars /\ ~IsDigit(s[k])
    /\ ~Contains(s, <<"\n", "\n">>)
    /\ ~HasAllThreePatterns(s)

\* the lines of a text that are not blank, each trimmed and HTML-escaped
EscapedLines(s) ==
    LET lines == SplitLit(s, <<"\n">>)
        kept == SelectSeq(lines, LAMBDA l : Strip(l) # <<>>)
    IN  [k \in 1..Len(kept) |-> EscapeText(Strip(kept[k]))]

(* C14: for every text with no Markdown, list or domain markers, of one     *)
(* line or of several, the output is exactly one paragraph wrapper holding   *)
(* the lines of the text separated by line-break tags, and no other tag.     *)
(* Stated as it is claimed; the code raises re.error for every such text.    *)
C14_PlainTextOneParagraph ==
    (Formatted /\ IsPlainText(arg.val)) =>
        /\ result.kind = "str"
        /\ result.val = <<TagPOpen>> \o JoinWith(EscapedLines(arg.val), <<TagBr>>)
                        \o <<TagPClose>>

\* the markup of each candidate of a general response that is not blank, in order
CandidateMarkups(content) ==
    FormatParagraphs(SplitLit(content, <<"\n", "\n">>)).val

(* C15: whenever the general formatter returns, its output is exactly the   *)
(* concatenation, in the original order, of the markup of the candidates     *)
(* that are not empty: nothing is inserted between the markup of two         *)
(* consecutive candidates.  Stated as it is claimed; the code joins the      *)
(* candidates with '<br><br>'.                                               *)
C15_CandidatesConcatenated ==
    (Formatted /\ path = "general" /\ result.kind = "str") =>
        result.val = Cat(CandidateMarkups(arg.val))

\* a line that starts (after blanks) with a bullet marker or a numbered marker
IsMarkerLine(line) ==
    LET l == Strip(line)
    IN  \/ /\ Len(l) >= 2 /\ IsBulletChar(l[1]) /\ IsSpace(l[2])
        \/ \E d \in 2..Len(l) :
              /\ \A k \in 1..(d - 1) : IsDigit(l[k])
              /\ l[d] = "."
              /\ d < Len(l) /\ IsSpace(l[d + 1])

\* the lines of a text
LinesOf(s) == SplitLit(s, <<"\n">>)

\* a general response that is one candidate without code fences
IsOneCandidate(s) ==
    /\ Strip(s) # <<>>
    /\ ~Contains(s, <<"\n", "\n">>)
    /\ ~Contains(s, Fence)
    /\ ~HasAllThreePatterns(s)

\* a list candidate: one candidate in which some line is a marker line
IsListCandidate(s) ==
    /\ IsOneCandidate(s)
    /\ \E k \in 1..Len(LinesOf(s)) : IsMarkerLine(LinesOf(s)[k])

\* the list state after one more element of the markup; "broken" when the
\* element is a tag that the state does not allow
ListStep(state, x) ==
    CASE x = TagUlOpen -> IF state = "no_list" THEN "in_unordered_list" ELSE "broken"
      [] x = TagOlOpen -> IF state = "no_list" THEN "in_ordered_list" ELSE "broken"
      [] x = TagUlClose -> IF state = "in_unordered_list" THEN "no_list" ELSE "broken"
      [] x = TagOlClose -> IF state = "in_ordered_list" THEN "no_list" ELSE "broken"
      [] x = TagLiOpen -> IF state \in {"in_unordered_list", "in_ordered_list"}
                          THEN state ELSE "broken"
      [] x = TagPOpen -> IF state = "no_list" THEN state ELSE "broken"
      [] OTHER -> state

RECURSIVE ListStateAfter(_, _)
\* the list state after the whole markup, read from the given state
ListStateAfter(markup, state) ==
    IF markup = <<>> \/ state = "broken" THEN state
    ELSE ListStateAfter(Tail(markup), ListStep(state, markup[1]))

(* C16: a list candidate is rendered with the list state always one of      *)
(* {no list, in unordered list, in ordered list}: at most one container is   *)
(* open, it is closed before a bare paragraph or a container of the other    *)
(* type, every item is inside an open container, and none is left open at    *)
(* the end of the candidate.  Stated as it is claimed, on the markup the     *)
(* call returns; the code never returns for a list candidate: it raises      *)
(* inside the first item, after the container was opened.                    *)
C16_ListTagsBalanced ==
    (Formatted /\ IsListCandidate(arg.val)) =>
        /\ result.kind = "str"
        /\ ListStateAfter(result.val, "no_list") = "no_list"

\* the marker lines of a text
MarkerLines(s) == SelectSeq(LinesOf(s), IsMarkerLine)

(* C17: every candidate without code fences in which at least one line      *)
(* that is not blank starts with a bullet or numbered marker is rendered as  *)
(* a list, one list item per marker line, a candidate of one single line     *)
(* included; a candidate with no such line is rendered as one paragraph      *)
(* without list tags.  Stated as it is claimed.                              *)
C17_MarkerLinesBecomeItems ==
    (Formatted /\ path = "general" /\ IsOneCandidate(arg.val)) =>
        /\ result.kind = "str"
        /\ CountOf(result.val, TagLiOpen) = Len(MarkerLines(arg.val))
        /\ MarkerLines(arg.val) = <<>> =>
              /\ CountOf(result.val, TagPOpen) = 1
              /\ ~HasAnyTag(result.val, {TagUlOpen, TagOlOpen})

\* a general response that is one candidate with code fences
IsFencedCandidate(s) ==
    /\ Strip(s) # <<>>
    /\ ~Contains(s, <<"\n", "\n">>)
    /\ Contains(s, Fence)
    /\ ~HasAllThreePatterns(s)

\* the code a segment holds, as claimed: the first line of the segment is
\* dropped when it has no leading whitespace (a language tag) and further
\* lines follow; otherwise the whole segment is kept
ClaimedCode(seg) ==
    LET lines == SplitLit(seg, <<"\n">>)
    IN  IF Len(lines) > 1 /\ lines[1] # <<>> /\ ~IsSpace(lines[1][1])
        THEN Strip(JoinWith(Tail(lines), <<"\n">>))
        ELSE Strip(seg)

\* the markup claimed for the segment of 0-based index i
ClaimedPiece(seg, i) ==
    IF Strip(seg) = <<>> THEN <<>>
    ELSE IF i % 2 = 1
    THEN <<TagPreCodeOpen>> \o EscapeText(ClaimedCode(seg)) \o <<TagPreCodeClose>>
    ELSE LET prose == FormatInlineText(Strip(seg))
         IN  IF prose.kind = "str" THEN prose.val ELSE <<>>

(* C18: a candidate with triple-backtick delimiters is split on them; each  *)
(* odd-indexed segment that is not blank yields one pre/code block with the  *)
(* escaped segment text, each even-indexed one is rendered as prose, in the  *)
(* original order; the first line of a code segment is dropped only when it  *)
(* has no leading whitespace and further lines follow, otherwise the whole   *)
(* segment is kept.  Stated as it is claimed.                                *)
C18_FencedSegments ==
    (Formatted /\ IsFencedCandidate(arg.val)) =>
        LET segs == SplitLit(Strip(arg.val), Fence)
        IN  /\ result.kind = "str"
            /\ result.val = Cat([k \in 1..Len(segs) |-> ClaimedPiece(segs[k], k - 1)])

\* the expected markup of the scenario 'Call us at 555-1234 for **urgent** help.'
CallUsMarkup ==
    <<TagPOpen>> \o SubSeq(CallUs, 1, 24) \o <<TagStrongOpen>>
    \o SubSeq(CallUs, 27, 32) \o <<TagStrongClose>> \o SubSeq(CallUs, 35, 40)
    \o <<TagPClose>>

(* C19: inline code, then bold, then italic: a '**...**' span is wrapped in *)
(* one strong span, text without markers is left as it is, and 'Call us at   *)
(* 555-1234 for **urgent** help.' renders as a single paragraph with the     *)
(* phone number unchanged and a strong span around 'urgent'.  Stated as it   *)
(* is claimed; the italic pass of the code raises re.error.                  *)
C19_InlineScenario ==
    /\ (Formatted /\ arg.val = CallUs) => result = PyStr(CallUsMarkup)
    /\ (Formatted /\ arg.val = PlainWord) =>
           result = PyStr(<<TagPOpen>> \o PlainWord \o <<TagPClose>>)

(* C20: across any sequence of submit, model-response, model-error,        *)
(* feedback-selection, feedback-submission and clear operations, every step  *)
(* leaves the transcript as it is, appends one message at its end, or resets *)
(* it to empty as a whole: the role and content of a message already in the  *)
(* transcript never change and no single message is removed.                 *)
C20_TranscriptAppendOrReset ==
    [][\/ chat_history' = chat_history
       \/ /\ Len(chat_history') = Len(chat_history) + 1
          /\ SubSeq(chat_history', 1, Len(chat_history)) = chat_history
       \/ chat_history' = <<>>]_vars

\* C20's case: a second conversation (after a clear that emptied a transcript
\* with messages) has its user message and its reply, and feedback was given
C20_Witness ==
    /\ op = "chat"
    /\ uuids = 2
    /\ Len(chat_history) = 2
    /\ chat_history[1].role = "user"
    /\ chat_history[2].role = "assistant"
    /\ 1 \in feedback_submitted

(* C21: in either variant every user message of the transcript is embedded
   with its HTML characters escaped: what _render_message embeds for it is
   the escaped content. *)
C21_UserContentEscaped ==
    op = "chat" =>
        \A k \in 1..Len(chat_history) :
            chat_history[k].role = "user" =>
                RenderMessage(chat_history[k]) = PyStr(EscapeText(chat_history[k].content))

(* C22: the upserts are keyed per conversation.  Two upserts started by
   _save_conversation_log carry the same id exactly when no clear happened
   between them; the upserts started since the last clear carry the id of
   the session, which is unset exactly when there is no such upsert. *)
C22_IdPerConversation ==
    op = "chat" =>
        /\ \A i, j \in DOMAIN upserts :
              (upserts[i].id = upserts[j].id) <=> (upserts[i].epoch = upserts[j].epoch)
        /\ \A i \in DOMAIN upserts :
              /\ upserts[i].id # 0
              /\ upserts[i].epoch = clears => upserts[i].id = conversation_log_id
        /\ (conversation_log_id = 0) <=>
              ~ \E i \in DOMAIN upserts : upserts[i].epoch = clears

\* a response logged, a clear, and a response logged again under another id
C22_Witness ==
    /\ op = "chat"
    /\ Len(upserts) = 2
    /\ upserts[1].epoch < upserts[2].epoch
    /\ upserts[1].id # upserts[2].id
    /\ conversation_log_id = upserts[2].id

\* two responses of one conversation logged under one id
C22_WitnessSameConversation ==
    /\ op = "chat"
    /\ Len(upserts) = 2
    /\ upserts[1].epoch = upserts[2].epoch
    /\ upserts[1].id = upserts[2].id

\* in this step a background thread ends with its exception caught
ThreadFails ==
    \/ \E k \in DOMAIN upserts :
          /\ k \in DOMAIN upserts'
          /\ upserts[k].state = "started"
          /\ upserts'[k].state = "failed"
    \/ \E k \in DOMAIN inserts :
          /\ k \in DOMAIN inserts'
          /\ inserts[k].state = "started"
          /\ inserts'[k].state = "failed"

(* C23: persistence is best-effort.  A step in which the feedback insert or
   the conversation upsert fails changes no session state: the position of
   the UI run, the transcript, feedback_submitted, response_count and the
   conversation id are what they were, and nothing is written to the table. *)
C23_FailureLeavesSession ==
    [][ThreadFails =>
          /\ run' = run
          /\ chat_history' = chat_history
          /\ feedback_selection' = feedback_selection
          /\ feedback_submitted' = feedback_submitted
          /\ response_count' = response_count
          /\ conversation_log_id' = conversation_log_id
          /\ input_key_counter' = input_key_counter
          /\ trigger_clear' = trigger_clear
          /\ log_rows' = log_rows]_vars

\* the upsert of a response and the insert of the feedback on it both failed,
\* and the message is still marked as submitted
C23_Witness ==
    /\ op = "chat"
    /\ \E k \in DOMAIN inserts :
          /\ inserts[k].state = "failed"
          /\ inserts[k].epoch = clears
          /\ inserts[k].index \in feedback_submitted
    /\ \E k \in DOMAIN upserts :
          /\ upserts[k].state = "failed"
          /\ upserts[k].id = conversation_log_id
    /\ response_count = 1
    /\ Len(chat_history) = 2

(* C24: when the call of the endpoint raised, the run goes on in the except
   branch and ends with st.rerun(): the transcript, ending with the user's
   message, gets exactly one more message, the assistant's, which starts with
   'Error: '; response_count goes up by one and one more upsert is started,
   for the id of the session and the new count.  The next run displays the
   transcript ("idle"), or raises while it formats it ("crashed"). *)
C24_EndpointErrorHandled ==
    [][(run = "raised" /\ run' # "raised") =>
          /\ chat_history[Len(chat_history)].role = "user"
          /\ Len(chat_history') = Len(chat_history) + 1
          /\ \A k \in 1..Len(chat_history) : chat_history'[k] = chat_history[k]
          /\ chat_history'[Len(chat_history')].role = "assistant"
          /\ StartsWith(chat_history'[Len(chat_history')].content, ErrorPrefix)
          /\ response_count' = response_count + 1
          /\ Len(upserts') = Len(upserts) + 1
          /\ upserts'[Len(upserts')].state = "started"
          /\ upserts'[Len(upserts')].id = conversation_log_id'
          /\ upserts'[Len(upserts')].count = response_count'
          /\ conversation_log_id' # 0
          /\ run' \in {"idle", "crashed"}]_vars

\* the second call of the endpoint of a conversation raised: the error
\* message is the fourth message and the second upsert was started
C24_Witness ==
    /\ op = "chat"
    /\ run = "idle"
    /\ Len(chat_history) = 4
    /\ chat_history[3].role = "user"
    /\ chat_history[4].role = "assistant"
    /\ chat_history[4].content = ErrorPrefix \o EndpointError
    /\ response_count = 2
    /\ Len(upserts) = 2
    /\ upserts[2].count = 2

\* a run of the script has ended (with st.rerun(), at its last line or with
\* an exception raised by the display) and the next has not appended yet
RunCompleted == run \in {"idle", "restarting", "crashed"}

(* C25: at the end of every completed run the transcript has even length and
   alternates user, assistant, starting with a user message; every user
   message is a trimmed, non-empty input (a blank input appended nothing). *)
C25_TranscriptAlternates ==
    (op = "chat" /\ RunCompleted) =>
        /\ Len(chat_history) % 2 = 0
        /\ \A k \in 1..Len(chat_history) :
              chat_history[k].role = (IF k % 2 = 1 THEN "user" ELSE "assistant")
        /\ \A k \in 1..Len(chat_history) :
              chat_history[k].role = "user" =>
                  /\ chat_history[k].content # <<>>
                  /\ chat_history[k].content = Strip(chat_history[k].content)

\* after a clear, a submit whose call failed and a submit that was answered
C25_Witness ==
    /\ op = "chat"
    /\ run = "idle"
    /\ clears = 1
    /\ Len(chat_history) = 4
    /\ chat_history[2].content = ErrorPrefix \o EndpointError
    /\ chat_history[4].content = TemplateReply

\* the number of assistant messages of the transcript
AssistantCount ==
    Cardinality({k \in 1..Len(chat_history) : chat_history[k].role = "assistant"})

(* C26: at the end of every completed run response_count is the number of
   assistant messages (responses and error responses) of the transcript. *)
C26_ResponseCountIsAssistantCount ==
    (op = "chat" /\ RunCompleted) => response_count = AssistantCount

\* a conversation with a response was cleared and the next one has one
\* response, an error response
C26_Witness ==
    /\ op = "chat"
    /\ RunCompleted
    /\ clears = 1
    /\ uuids = 2
    /\ response_count = 1
    /\ AssistantCount = 1
    /\ StartsWith(chat_history[2].content, ErrorPrefix)

\* in this step the upsert thread k executes its MERGE
UpsertWrites(k) ==
    /\ k \in DOMAIN upserts
    /\ k \in DOMAIN upserts'
    /\ upserts[k].state = "started"
    /\ upserts'[k].state = "done"

(* C27: the transcript written by the upsert started for the k-th response
   of a conversation holds exactly the first 2k messages of the conversation:
   it agrees with the response count written in the same statement. *)
C27_TranscriptMatchesCount ==
    [][\A k \in DOMAIN upserts :
          UpsertWrites(k) =>
              Len(log_rows'[upserts[k].id].message) = 2 * upserts[k].count]_vars

\* the upserts started for conversation id
UpsertsOf(id) == {k \in DOMAIN upserts : upserts[k].id = id}

\* the upserts of conversation id all committed
AllCommitted(id) ==
    /\ UpsertsOf(id) # {}
    /\ \A k \in UpsertsOf(id) : upserts[k].state = "done"

(* C28: when every upsert of a conversation succeeded and all its threads
   have finished, the row of the conversation carries the response count of
   the last upsert started, whatever order the threads ran in. *)
C28_RowCarriesLatestCount ==
    op = "chat" =>
        \A k \in DOMAIN upserts :
            AllCommitted(upserts[k].id) =>
                log_rows[upserts[k].id].count >= upserts[k].count

\* in this step a feedback insert is started
InsertStarts == Len(inserts') = Len(inserts) + 1

(* C29: between two clears at most one feedback insert is started for a
   message index.  An insert is started only for the last message of the
   transcript when the assistant wrote it, only with a thumb selection
   recorded for its index and only while the index is not in
   feedback_submitted; after the step the index is in feedback_submitted and
   the thank-you note stands in place of the form. *)
C29_OneInsertPerMessage ==
    /\ [](\A i, j \in DOMAIN inserts :
             (inserts[i].epoch = inserts[j].epoch /\ inserts[i].index = inserts[j].index)
                 => i = j)
    /\ [][InsertStarts =>
             /\ chat_history # <<>>
             /\ chat_history[Len(chat_history)].role = "assistant"
             /\ inserts'[Len(inserts')].index = LastIndex
             /\ inserts'[Len(inserts')].epoch = clears
             /\ LastIndex \in DOMAIN feedback_selection
             /\ LastIndex \notin feedback_submitted
             /\ LastIndex \in feedback_submitted'
             /\ chat_history' = chat_history
             /\ FeedbackUi = "form"
             /\ FeedbackUi' = "thank-you"]_vars

\* feedback was submitted on the first response and then on the second
C29_Witness ==
    /\ op = "chat"
    /\ Len(inserts) = 2
    /\ inserts[1].index = 1
    /\ inserts[2].index = 3
    /\ inserts[1].epoch = inserts[2].epoch
    /\ feedback_submitted = {1, 3}
    /\ FeedbackUi = "thank-you"

\* everything _clear_chat() resets is in its initial state after the step
ClearedNow ==
    /\ chat_history' = <<>>
    /\ feedback_selection' = <<>>
    /\ feedback_submitted' = {}
    /\ conversation_log_id' = 0
    /\ response_count' = 0

(* C30: in v2 the hidden clear trigger sets trigger_clear and restarts the
   run, leaving the session as it is; the flag is set exactly while that
   restart is pending.  The next run does nothing before it has reset the
   flag and cleared the transcript, the feedback selections,
   feedback_submitted, the conversation id and response_count; the session
   is cleared once per trigger and by nothing else. *)
C30_TriggerClearsOnce ==
    /\ [](op = "chat" => (trigger_clear <=> (app = "v2" /\ run = "restarting")))
    /\ [][(app = "v2" /\ ~ trigger_clear /\ trigger_clear') =>
             /\ run = "idle"
             /\ run' = "restarting"
             /\ chat_history' = chat_history
             /\ feedback_selection' = feedback_selection
             /\ feedback_submitted' = feedback_submitted
             /\ conversation_log_id' = conversation_log_id
             /\ response_count' = response_count
             /\ clears' = clears]_vars
    /\ [][(app = "v2" /\ trigger_clear) =>
             /\ ~ trigger_clear'
             /\ ClearedNow
             /\ clears' = clears + 1
             /\ run' = "idle"]_vars
    /\ [][(app = "v2" /\ clears' # clears) => (trigger_clear /\ ~ trigger_clear')]_vars

\* v2: a conversation with a response and a submitted feedback was cleared
\* by the trigger; the flag is down again and the session is empty
C30_Witness ==
    /\ op = "chat"
    /\ app = "v2"
    /\ clears = 1
    /\ run = "idle"
    /\ ~ trigger_clear
    /\ chat_history = <<>>
    /\ feedback_submitted = {}
    /\ conversation_log_id = 0
    /\ response_count = 0
    /\ Len(upserts) = 1
    /\ Len(inserts) = 1

=============================================================================
